---- MODULE Spec2Model ----
(***************************************************************************)
(* Model of the forecast engine of the inflation report                    *)
(* (src/data_fetcher.py, forecast_inflation).                              *)
(*                                                                         *)
(* Floating point numbers are fixed-point integers in units of 1/Scale;    *)
(* a division or a square root rounds to one unit, the way a float         *)
(* operation rounds to one ulp.  The least-squares line is kept as the     *)
(* exact fraction (A*x + B) / D and rounded once, where it is evaluated.   *)
(* The exponential-smoothing library (statsmodels) is an environment       *)
(* whose answer for a training series is chosen once and remembered, so    *)
(* that the library is a function of its input.                            *)
(***************************************************************************)
EXTENDS Integers, Sequences, FiniteSets, TLC

\* ------------------------------------------------------------------ bounds

\* Largest forecast horizon (months_ahead) a call is made with.
MaxHorizon == 3

\* ------------------------------------------------------- program constants

\* min(24, len(region_data)): the training window of the primary method.
MaxTrainingWindow == 24

\* training_window >= 12: the least window the primary method is fitted on.
MinPrimaryWindow == 12

\* region_data.tail(12): the window of the linear fallback.
FallbackWindow == 12

\* np.arange(12, 12 + months_ahead): the first month offset predicted.
FutureStart == 12

\* np.sqrt(1 + i / 6)
HorizonDivisor == 6

HoltWinters == "Holt-Winters (Exponential Smoothing mit Trend)"
LinearTrend == "Lineare Regression (12-Monats-Trend)"

\* ------------------------------------------------------------- arithmetic

\* Fixed-point units per 1.0.
Scale == 10 * 10

\* float('nan'): a value no arithmetic is done on.
NaN == 0 - 2^30

IsNaN(x) == x = NaN

\* Nearest integer to a / b, b > 0.
RoundDiv(a, b) == (2 * a + b) \div (2 * b)

RECURSIVE SqrtBetween(_, _, _)
\* The r in lo..hi with r*r <= n < (r+1)*(r+1), by bisection.
SqrtBetween(n, lo, hi) ==
    IF lo >= hi THEN lo
    ELSE LET mid == (lo + hi + 1) \div 2
         IN  IF mid * mid <= n THEN SqrtBetween(n, mid, hi)
                               ELSE SqrtBetween(n, lo, mid - 1)

\* np.sqrt on a non-negative integer: the floor of the square root.
ISqrt(n) == SqrtBetween(n, 0, IF n < 40000 THEN 200 ELSE 46340)

RECURSIVE SumSeq(_)
SumSeq(s) == IF s = <<>> THEN 0 ELSE s[1] + SumSeq(Tail(s))

\* np.std(residuals): the population standard deviation.
Std(res) ==
    LET n  == Len(res)
        s1 == SumSeq(res)
        s2 == SumSeq([k \in 1..n |-> res[k] * res[k]])
    IN  ISqrt((n * s2 - s1 * s1) \div (n * n))

\* ------------------------------------------------------------------ dates

\* pd.Timestamp, to the day.
Date(y, m, d) == [y |-> y, m |-> m, d |-> d]

\* pd.NaT: a missing date.
NaT == Date(0, 0, 0)

DateKey(t) == (t.y * 12 + (t.m - 1)) * 32 + t.d

\* a < b on timestamps, neither missing.
DateLess(a, b) == DateKey(a) < DateKey(b)

\* sort_values('date') order: ascending, missing dates last.
SortsBefore(a, b) ==
    IF a = NaT THEN FALSE ELSE IF b = NaT THEN TRUE ELSE DateLess(a, b)

\* ----------------------------------------------------------------- tables

AllGeos == <<"AT", "DE">>

\* df_long['geo'].map({...}) of process_inflation_data.
CountryName(geo) ==
    CASE geo = "AT" -> "Oesterreich"
      [] geo = "DE" -> "Deutschland"
      [] OTHER      -> "Eurozone"

\* One row of the tidy table handed to the forecast engine.
Row(geo, date, rate) ==
    [date |-> date, geo |-> geo, country |-> CountryName(geo),
     inflation_rate |-> rate]

\* df[df['geo'] == geo]
FilterGeo(df, geo) == SelectSeq(df, LAMBDA r : r.geo = geo)

RECURSIVE UniqueFrom(_, _)
UniqueFrom(df, seen) ==
    IF df = <<>> THEN <<>>
    ELSE IF df[1].geo \in seen THEN UniqueFrom(Tail(df), seen)
    ELSE <<df[1].geo>> \o UniqueFrom(Tail(df), seen \cup {df[1].geo})

\* Mutant of UniqueGeos: the loop visits every known region code.
UniqueGeosAll(df) == AllGeos

\* df['geo'].unique(): the region codes in order of first appearance.
UniqueGeos(df) == UniqueFrom(df, {})

\* The rows of two sorted sequences at the given positions of one sequence.
Assemble(left, right, at_left, at_right) ==
    [p \in 1..(Len(left) + Len(right)) |->
        IF \E i \in 1..Len(left) : at_left[i] = p
        THEN left[CHOOSE i \in 1..Len(left) : at_left[i] = p]
        ELSE right[CHOOSE j \in 1..Len(right) : at_right[j] = p]]

\* Merge two sorted sequences; of rows that do not sort before one another
\* those of `left` come first.
Merge(left, right) ==
    Assemble(left, right,
             [i \in 1..Len(left) |->
                 i + Cardinality({j \in 1..Len(right) :
                        SortsBefore(right[j].date, left[i].date)})],
             [j \in 1..Len(right) |->
                 j + Cardinality({i \in 1..Len(left) :
                        ~SortsBefore(right[j].date, left[i].date)})])

\* Insert r after the rows of the sorted sequence that do not sort after it.
InsertRow(sorted, r) ==
    LET k == Cardinality({i \in 1..Len(sorted) :
                             ~SortsBefore(r.date, sorted[i].date)})
    IN  SubSeq(sorted, 1, k) \o <<r>> \o SubSeq(sorted, k + 1, Len(sorted))

RECURSIVE SortValues(_)
\* df.sort_values('date'): ascending, missing dates last, rows of equal
\* date in their input order.  Up to 40 rows are sorted by insertion, more
\* by halves that are merged; the order is the same.
SortValues(rows) ==
    IF rows = <<>> THEN <<>>
    ELSE IF Len(rows) <= 40
    THEN InsertRow(SortValues(SubSeq(rows, 1, Len(rows) - 1)), rows[Len(rows)])
    ELSE LET half == Len(rows) \div 2
         IN  Merge(SortValues(SubSeq(rows, 1, half)),
                   SortValues(SubSeq(rows, half + 1, Len(rows))))

\* df.tail(k)
TailRows(rows, k) ==
    IF k >= Len(rows) THEN rows ELSE SubSeq(rows, Len(rows) - k + 1, Len(rows))

Min(a, b) == IF a <= b THEN a ELSE b
Max(a, b) == IF a >= b THEN a ELSE b


\* region_data['date'].max() / recent_data['date'].min(): missing dates are
\* skipped; NaT when every date is missing.
MaxDate(rows) ==
    LET ds == {rows[k].date : k \in 1..Len(rows)} \ {NaT}
    IN  IF ds = {} THEN NaT
        ELSE CHOOSE t \in ds : \A u \in ds : ~DateLess(t, u)

MinDate(rows) ==
    LET ds == {rows[k].date : k \in 1..Len(rows)} \ {NaT}
    IN  IF ds = {} THEN NaT
        ELSE CHOOSE t \in ds : \A u \in ds : ~DateLess(u, t)

Values(rows) == [k \in 1..Len(rows) |-> rows[k].inflation_rate]

HasNaN(s) == \E k \in 1..Len(s) : IsNaN(s[k])

\* ------------------------------------------------- linear-trend fallback

\* Mutant of MonthOffsets: the rows of the window are numbered 0, 1, 2, ...
MonthOffsetsByPosition(recent) == [k \in 1..Len(recent) |-> k - 1]

\* recent_data['months']: (year - min.year) * 12 + (month - min.month).
MonthOffsets(recent) ==
    LET min_date == MinDate(recent)
    IN  [k \in 1..Len(recent) |->
            IF recent[k].date = NaT \/ min_date = NaT THEN NaN
            ELSE (recent[k].date.y - min_date.y) * 12
                 + (recent[k].date.m - min_date.m)]

\* LinearRegression().fit(X, y) validates its input and raises ValueError on
\* a missing value.
FitRaises(X, y) == HasNaN(X) \/ HasNaN(y)

\* Mutant of FitLine: the line is fitted without an intercept.
FitLineThroughOrigin(X, y) ==
    LET sxx == SumSeq([k \in 1..Len(X) |-> X[k] * X[k]])
        sxy == SumSeq([k \in 1..Len(X) |-> X[k] * y[k]])
    IN  IF sxx = 0 THEN [A |-> 0, B |-> 0, D |-> 1]
        ELSE [A |-> sxy, B |-> 0, D |-> sxx]

\* LinearRegression().fit(X, y): the least-squares line, coefficient A / D
\* and intercept B / D.  When all offsets are equal (a single observation)
\* the minimum-norm solution has coefficient 0 and intercept mean(y).
FitLine(X, y) ==
    LET n   == Len(X)
        sx  == SumSeq(X)
        sy  == SumSeq(y)
        sxx == SumSeq([k \in 1..n |-> X[k] * X[k]])
        sxy == SumSeq([k \in 1..n |-> X[k] * y[k]])
        D   == n * sxx - sx * sx
    IN  IF D = 0 THEN [A |-> 0, B |-> sy, D |-> n]
        ELSE [A |-> n * sxy - sx * sy, B |-> sy * sxx - sx * sxy, D |-> D]

\* model.predict at one month offset.
Predict(model, x) == RoundDiv(model.A * x + model.B, model.D)

\* np.arange(12, 12 + months_ahead): the month offsets predicted.
FutureMonths(months_ahead) ==
    [i \in 1..months_ahead |-> FutureStart + (i - 1)]

\* The except branch (lines 354-381) for one region.
LinearFallback(region_data, months_ahead) ==
    LET recent_data == TailRows(region_data, FallbackWindow)
        X == MonthOffsets(recent_data)
        y == Values(recent_data)
    IN  IF FitRaises(X, y)
        THEN [raised |-> TRUE, forecast_values |-> <<>>, std_error |-> 0,
              method_used |-> LinearTrend, fitted_on |-> 0]
        ELSE LET model == FitLine(X, y)
                 future == FutureMonths(months_ahead)
                 predictions == [k \in 1..Len(X) |-> Predict(model, X[k])]
                 residuals == [k \in 1..Len(X) |-> y[k] - predictions[k]]
             IN  [raised |-> FALSE,
                  forecast_values |->
                      [i \in 1..months_ahead |-> Predict(model, future[i])],
                  std_error |-> Std(residuals),
                  method_used |-> LinearTrend,
                  fitted_on |-> Len(recent_data)]

\* --------------------------------------- damped-trend smoothing (library)

\* The damping parameter of the fitted model.
Phi == (9 * Scale) \div 10

FitTrends == {0 - Scale \div 2, (3 * Scale) \div 10}
FitErrors == {0, Scale \div 4}

Answer(kind, trend, err) == [kind |-> kind, trend |-> trend, err |-> err]

\* What model.fit can answer for a training series: it raises, or it returns
\* a fitted model (final level the last observation, a trend, in-sample
\* errors); on a series with a missing value it raises or returns a model
\* of missing values.
FitAnswers(y) ==
    IF HasNaN(y)
    THEN {Answer("raise", 0, 0), Answer("nan", 0, 0)}
    ELSE {Answer("raise", 0, 0)}
         \cup {Answer("fit", t, e) : t \in FitTrends, e \in FitErrors}

RECURSIVE DampSum(_)
\* phi + phi^2 + ... + phi^h
DampSum(h) ==
    IF h = 0 THEN 0 ELSE (Phi * (Scale + DampSum(h - 1))) \div Scale

\* Mutant of LibraryForecast: the damping runs backwards from the horizon.
LibraryForecastReversed(y, ans, steps) ==
    [h \in 1..steps |->
        IF ans.kind = "nan" THEN NaN
        ELSE y[Len(y)] + (ans.trend * DampSum(steps - h + 1)) \div Scale]

\* fitted_model.forecast(steps): level + (phi + ... + phi^h) * trend.
LibraryForecast(y, ans, steps) ==
    [h \in 1..steps |->
        IF ans.kind = "nan" THEN NaN
        ELSE y[Len(y)] + (ans.trend * DampSum(h)) \div Scale]

\* fitted_model.fittedvalues
LibraryFitted(y, ans) ==
    [k \in 1..Len(y) |->
        IF ans.kind = "nan" THEN NaN
        ELSE y[k] + (IF k % 2 = 1 THEN ans.err ELSE 0 - ans.err)]

\* The try branch (lines 330-348) for one region, given the library's answer.
PrimaryMethod(training_data, months_ahead, ans) ==
    LET y == Values(training_data)
        fitted_values == LibraryFitted(y, ans)
        residuals == [k \in 1..Len(y) |-> y[k] - fitted_values[k]]
    IN  [raised |-> FALSE,
         forecast_values |-> LibraryForecast(y, ans, months_ahead),
         std_error |-> IF ans.kind = "nan" THEN NaN ELSE Std(residuals),
         method_used |-> HoltWinters,
         fitted_on |-> Len(training_data)]

\* Mutant of PrimaryApplies: the window size is not looked at.
PrimaryAppliesAnyWindow(method, training_window) == method = "holt_winters"

\* Mutant of PrimaryApplies: a window of exactly 12 is refused.
PrimaryAppliesAbove(method, training_window) ==
    method = "holt_winters" /\ training_window > MinPrimaryWindow

\* Mutant of PrimaryApplies: the method asked for is not looked at.
PrimaryAppliesAnyMethod(method, training_window) ==
    training_window >= MinPrimaryWindow

\* method == 'holt_winters' and training_window >= 12
PrimaryApplies(method, training_window) ==
    method = "holt_winters" /\ training_window >= MinPrimaryWindow


\* ------------------------------------------------------------ future dates

\* Mutant of NextMonth: the month is advanced and the day of last_date kept.
NextMonthKeepsDay(last_date) ==
    IF last_date.m = 12 THEN Date(last_date.y + 1, 1, last_date.d)
    ELSE Date(last_date.y, last_date.m + 1, last_date.d)

\* Lines 386-389: the first day of the month after last_date.
NextMonth(last_date) ==
    IF last_date.m = 12 THEN Date(last_date.y + 1, 1, 1)
    ELSE Date(last_date.y, last_date.m + 1, 1)

\* The month start that lies k month starts after the first one on or after t.
MonthStart(t, k) ==
    LET first == t.y * 12 + (t.m - 1) + (IF t.d = 1 THEN 0 ELSE 1)
    IN  Date((first + k) \div 12, ((first + k) % 12) + 1, 1)

\* Mutant of FutureDates: every step gets the first month start.
FutureDatesRepeating(next_month, months_ahead) ==
    [i \in 1..months_ahead |-> MonthStart(next_month, 0)]

\* pd.date_range(start=next_month, periods=months_ahead, freq='MS')
FutureDates(next_month, months_ahead) ==
    [i \in 1..months_ahead |-> MonthStart(next_month, i - 1)]

\* ------------------------------------------------------- confidence bands

\* Mutant of HorizonFactor: the factor shrinks with the step.
HorizonFactorShrinking(i) ==
    ISqrt((Scale * Scale * HorizonDivisor) \div (HorizonDivisor + i))

\* np.sqrt(1 + i / 6), i the 0-based forecast step.
HorizonFactor(i) ==
    ISqrt((Scale * Scale * (HorizonDivisor + i)) \div HorizonDivisor)

\* Mutant of Uncertainty: the band grows linearly, by 1 + i / 6.
UncertaintyLinear(std_error, i) ==
    IF IsNaN(std_error) THEN NaN
    ELSE (((std_error * 196) \div 100)
          * (Scale + (Scale * i) \div HorizonDivisor)) \div Scale

\* std_error * 1.96 * horizon_factor
Uncertainty(std_error, i) ==
    IF IsNaN(std_error) THEN NaN
    ELSE (((std_error * 196) \div 100) * HorizonFactor(i)) \div Scale

\* Mutant of LowerBound: no floor.
LowerBoundUnclamped(value, uncertainty) ==
    IF IsNaN(value) \/ IsNaN(uncertainty) THEN NaN ELSE value - uncertainty

\* max(0, float(value - uncertainty)): Python's max keeps 0 unless the other
\* argument compares greater, so a missing value gives 0.
LowerBound(value, uncertainty) ==
    IF IsNaN(value) \/ IsNaN(uncertainty) THEN 0
    ELSE IF value - uncertainty > 0 THEN value - uncertainty ELSE 0

\* float(value + uncertainty)
UpperBound(value, uncertainty) ==
    IF IsNaN(value) \/ IsNaN(uncertainty) THEN NaN ELSE value + uncertainty

\* The record appended for forecast step i (0-based), lines 401-412.
ForecastRow(geo, country_name, date, value, i, fit, training_window) ==
    LET uncertainty == Uncertainty(fit.std_error, i)
    IN  [date |-> date, geo |-> geo, country |-> country_name,
         inflation_rate |-> value,
         lower_bound |-> LowerBound(value, uncertainty),
         upper_bound |-> UpperBound(value, uncertainty),
         is_forecast |-> TRUE,
         method |-> fit.method_used,
         std_error |-> fit.std_error,
         training_months |-> training_window]

\* ------------------------------------------------------------ one region

\* Mutant of RegionData: the rows are not filtered by region.
RegionDataUnfiltered(df, geo) == SortValues(df)

\* Mutant of RegionData: the rows are left in the order of the input.
RegionDataUnsorted(df, geo) == FilterGeo(df, geo)

\* df[df['geo'] == geo].sort_values('date')
RegionData(df, geo) == SortValues(FilterGeo(df, geo))

\* min(24, len(region_data))
TrainingWindow(region_data) == Min(MaxTrainingWindow, Len(region_data))

\* region_data.tail(training_window)
TrainingData(region_data) ==
    TailRows(region_data, TrainingWindow(region_data))

\* Mutant of FitRegion: an error of the primary fit leaves the function.
FitRegionSurfaces(region_data, months_ahead, method, ans) ==
    IF PrimaryApplies(method, TrainingWindow(region_data))
    THEN IF ans.kind = "raise"
         THEN [raised |-> TRUE, forecast_values |-> <<>>, std_error |-> 0,
               method_used |-> HoltWinters, fitted_on |-> 0]
         ELSE PrimaryMethod(TrainingData(region_data), months_ahead, ans)
    ELSE LinearFallback(region_data, months_ahead)

\* Lines 329-381: the primary method when it applies and the library does
\* not raise, the linear fallback otherwise.
FitRegion(region_data, months_ahead, method, ans) ==
    IF PrimaryApplies(method, TrainingWindow(region_data))
       /\ ans.kind # "raise"
    THEN PrimaryMethod(TrainingData(region_data), months_ahead, ans)
    ELSE LinearFallback(region_data, months_ahead)

\* Lines 383-412: the rows of one region from its fit.
RegionRows(geo, region_data, months_ahead, fit) ==
    LET country_name == region_data[1].country
        last_date    == MaxDate(region_data)
        next_month   == NextMonth(last_date)
        future_dates == FutureDates(next_month, months_ahead)
    IN  [i \in 1..months_ahead |->
            ForecastRow(geo, country_name, future_dates[i],
                        fit.forecast_values[i], i - 1, fit,
                        TrainingWindow(region_data))]

\* Mutant of LoopBody: a region whose fit or dates fail is skipped.
LoopBodySkipsFailures(df, geo, months_ahead, method, ans) ==
    LET region_data == RegionData(df, geo)
    IN  IF region_data = <<>>
        THEN [raised |-> FALSE, rows |-> <<>>, fitted_on |-> 0,
              training |-> <<>>]
        ELSE LET fit == FitRegion(region_data, months_ahead, method, ans)
             IN  IF fit.raised \/ MaxDate(region_data) = NaT
                 THEN [raised |-> FALSE, rows |-> <<>>, fitted_on |-> 0,
                       training |-> TrainingData(region_data)]
                 ELSE [raised |-> FALSE,
                       rows |-> RegionRows(geo, region_data, months_ahead, fit),
                       fitted_on |-> fit.fitted_on,
                       training |-> TrainingData(region_data)]

\* One iteration of the loop over df['geo'].unique(): the rows appended, or
\* the exception that leaves the function (an empty selection at .iloc[0], a
\* fallback fit on missing values, a region without any date).
LoopBody(df, geo, months_ahead, method, ans) ==
    LET region_data == RegionData(df, geo)
    IN  IF region_data = <<>>
        THEN [raised |-> TRUE, rows |-> <<>>, fitted_on |-> 0,
              training |-> <<>>]
        ELSE LET fit == FitRegion(region_data, months_ahead, method, ans)
             IN  IF fit.raised \/ MaxDate(region_data) = NaT
                 THEN [raised |-> TRUE, rows |-> <<>>, fitted_on |-> 0,
                       training |-> TrainingData(region_data)]
                 ELSE [raised |-> FALSE,
                       rows |-> RegionRows(geo, region_data, months_ahead, fit),
                       fitted_on |-> fit.fitted_on,
                       training |-> TrainingData(region_data)]


\* ------------------------------------------------------ fetching, cleaning

\* Text (a column name, a classification code) is a sequence of characters.
Digits == <<"0", "1", "2", "3", "4", "5", "6", "7", "8", "9">>

IsDigit(c) == \E d \in 1..10 : Digits[d] = c

DigitValue(c) == (CHOOSE d \in 1..10 : Digits[d] = c) - 1

\* The number a run of digits spells.
RECURSIVE Number(_)
Number(cs) ==
    IF cs = <<>> THEN 0
    ELSE 10 * Number(SubSeq(cs, 1, Len(cs) - 1)) + DigitValue(cs[Len(cs)])

\* isinstance(col, str) and '-' in str(col)
IsTimeColumn(col) == \E k \in 1..Len(col) : col[k] = "-"

\* pd.to_datetime(period, format='%Y-%m', errors='coerce'): four digits of
\* year, a hyphen, one or two digits of month in 1..12 give the first day of
\* that month; anything else gives NaT.
ParsePeriod(period) ==
    IF /\ Len(period) \in {6, 7}
       /\ \A k \in 1..Len(period) :
             IF k = 5 THEN period[k] = "-" ELSE IsDigit(period[k])
       /\ Number(SubSeq(period, 6, Len(period))) \in 1..12
       /\ Number(SubSeq(period, 1, 4)) > 0
    THEN Date(Number(SubSeq(period, 1, 4)),
              Number(SubSeq(period, 6, Len(period))), 1)
    ELSE NaT

\* A cell of the raw table: a number, text that spells a number, other
\* text, or nothing.
Cell(kind, v) == [kind |-> kind, v |-> v]

\* Mutant of ToNumeric: text that is not a number becomes 0.
ToNumericZeroFill(cell) ==
    IF cell.kind \in {"number", "numeral"} THEN cell.v
    ELSE IF cell.kind = "text" THEN 0 ELSE NaN

\* pd.to_numeric(cell, errors='coerce')
ToNumeric(cell) ==
    IF cell.kind \in {"number", "numeral"} THEN cell.v ELSE NaN

\* One row of the wide table: identifiers and one cell per column.
RawRow(geo, coicop, cells) == [geo |-> geo, coicop |-> coicop, cells |-> cells]

\* A wide table: the names of its value columns and its rows.
RawTable(columns, rows) == [columns |-> columns, rows |-> rows]

\* ['AT', 'DE', 'EA20', 'EA19']
FetchedGeos == {"AT", "DE", "EA20", "EA19"}

\* df['coicop'].str.startswith('CP00')
StartsWithCP00(coicop) ==
    Len(coicop) >= 4 /\ SubSeq(coicop, 1, 4) = <<"C", "P", "0", "0">>

\* Lines 38-41: the all-items rows of the regions of interest.
KeptRows(t) ==
    SelectSeq(t.rows,
              LAMBDA r : StartsWithCP00(r.coicop) /\ r.geo \in FetchedGeos)

\* Mutant of PreferEA20: both euro-area codes are kept.
KeepBothEuroAreas(kept) == kept

\* Lines 44-45: EA19 is dropped when EA20 is present too.
PreferEA20(kept) ==
    LET codes == {kept[k].geo : k \in 1..Len(kept)}
    IN  IF "EA20" \in codes /\ "EA19" \in codes
        THEN SelectSeq(kept, LAMBDA r : r.geo # "EA19")
        ELSE kept

\* Lines 38-45: the all-items rows of the regions of interest; EA19 is
\* dropped when EA20 is present too.
FilterFetched(t) == RawTable(t.columns, PreferEA20(KeptRows(t)))

\* COICOP_CATEGORIES of the package.
CoicopCategories ==
    {<<"C", "P", "0", "0">>, <<"F", "O", "O", "D">>, <<"N", "R", "G">>,
     <<"I", "G", "D">>, <<"S", "E", "R", "V">>}

\* Package version: the rows of the configured categories and countries
\* (and EA19).
KeptRowsPackage(t, countries) ==
    SelectSeq(t.rows,
              LAMBDA r : r.coicop \in CoicopCategories
                         /\ r.geo \in countries \cup {"EA19"})

\* Package version of the filter, with the same euro-area rule.
FilterPackage(t, countries) ==
    RawTable(t.columns, PreferEA20(KeptRowsPackage(t, countries)))

\* df['coicop'] raises KeyError on a table without that column (its rows
\* carry no code).
FilterRaises(t) == \E k \in 1..Len(t.rows) : t.rows[k].coicop = <<>>

\* Mutant of ExceptException: the clause catches nothing.
ExceptNothing(raised) == FALSE

\* `except Exception` catches Exception and its subclasses, not
\* KeyboardInterrupt.
ExceptException(raised) == raised = "Exception"

\* df.melt(id_vars=['geo'], value_vars=time_columns): one row per time
\* column and raw row, column by column.
Melt(t) ==
    LET cols == {c \in 1..Len(t.columns) : IsTimeColumn(t.columns[c])}
        n    == Len(t.rows)
        nth(j) == CHOOSE c \in cols :
                      Cardinality({b \in cols : b < c}) = j - 1
    IN  [k \in 1..(Cardinality(cols) * n) |->
            LET c == nth(((k - 1) \div n) + 1)
                r == t.rows[((k - 1) % n) + 1]
            IN  [geo |-> r.geo, period |-> t.columns[c],
                 inflation_rate |-> r.cells[c]]]

\* df_long['date'] >= '2002-01-01'
HistoricalStart == Date(2002, 1, 1)

\* df_long['geo'].map({...}): a code outside the mapping gives a missing
\* name.
CountryOf(geo) == IF geo \in FetchedGeos THEN CountryName(geo) ELSE "nan"

\* process_inflation_data, lines 94-131.
ProcessInflationData(t) ==
    LET df_long == Melt(t)
        typed == [k \in 1..Len(df_long) |->
                    [date |-> ParsePeriod(df_long[k].period),
                     geo |-> df_long[k].geo,
                     inflation_rate |-> ToNumeric(df_long[k].inflation_rate)]]
        present == SelectSeq(typed,
                       LAMBDA r : ~IsNaN(r.inflation_rate) /\ r.date # NaT)
        recent == SelectSeq(present,
                      LAMBDA r : ~DateLess(r.date, HistoricalStart))
        named == [k \in 1..Len(recent) |->
                    [date |-> recent[k].date, year |-> recent[k].date.y,
                     geo |-> recent[k].geo,
                     country |-> CountryOf(recent[k].geo),
                     inflation_rate |-> recent[k].inflation_rate]]
    IN  SortValues(named)

\* ---------------------------------------------------------------- analysis

\* df['date'] >= '2020-01-01'
StatisticsStart == Date(2020, 1, 1)

\* Mutant of Since2020: every observation is used.
SinceEver(df) == df

\* df[df['date'] >= '2020-01-01']
Since2020(df) == SelectSeq(df, LAMBDA r : ~DateLess(r.date, StatisticsStart))

\* The k-th smallest of a sequence of numbers.
Kth(vals, k) ==
    CHOOSE v \in {vals[i] : i \in 1..Len(vals)} :
        /\ Cardinality({i \in 1..Len(vals) : vals[i] < v}) < k
        /\ Cardinality({i \in 1..Len(vals) : vals[i] <= v}) >= k

\* Series.median(): the middle value, or the mean of the two middle values.
Median(vals) ==
    LET n == Len(vals)
    IN  IF n % 2 = 1 THEN Kth(vals, (n + 1) \div 2)
        ELSE RoundDiv(Kth(vals, n \div 2) + Kth(vals, (n \div 2) + 1), 2)

\* Series.std(): the sample standard deviation (ddof = 1), missing for one
\* value.
SampleStd(vals) ==
    LET n  == Len(vals)
        s1 == SumSeq(vals)
        s2 == SumSeq([k \in 1..n |-> vals[k] * vals[k]])
    IN  IF n < 2 THEN NaN ELSE ISqrt((n * s2 - s1 * s1) \div (n * (n - 1)))

\* region_data.sort_values('date', ascending=False).iloc[0]: a row of the
\* latest date; which one among several is left to the sort.
LatestRow(region_data, tie) ==
    LET at == {k \in 1..Len(region_data) :
                  region_data[k].date = MaxDate(region_data)}
    IN  region_data[IF tie = "first" THEN CHOOSE k \in at : \A j \in at : k <= j
                    ELSE CHOOSE k \in at : \A j \in at : k >= j]

\* The entry calculate_statistics stores for one region, lines 26-34.
RegionStatistics(region_data, tie) ==
    LET vals == Values(region_data)
    IN  [mean |-> RoundDiv(SumSeq(vals), Len(vals)),
         median |-> Median(vals),
         min |-> Kth(vals, 1),
         max |-> Kth(vals, Len(vals)),
         std |-> SampleStd(vals),
         latest |-> LatestRow(region_data, tie).inflation_rate,
         latest_date |-> LatestRow(region_data, tie).date]

\* The region whose entry a dictionary keyed by country name ends up with:
\* the last region of that name the loop visits.
LastGeoNamed(table, name) ==
    LET geos == UniqueGeos(table)
        at == {k \in 1..Len(geos) :
                  \E r \in 1..Len(table) :
                      table[r].geo = geos[k] /\ table[r].country = name}
    IN  geos[CHOOSE k \in at : \A j \in at : k >= j]

\* The country names of a table.
CountrySet(table) == {table[k].country : k \in 1..Len(table)}

\* calculate_statistics, lines 18-36.
CalculateStatistics(df, tie) ==
    LET df_filtered == Since2020(df)
    IN  [name \in CountrySet(df_filtered) |->
            RegionStatistics(FilterGeo(df_filtered,
                                       LastGeoNamed(df_filtered, name)), tie)]

\* df.pivot(index='date', columns='country', ...) raises ValueError when a
\* (date, country) pair occurs twice.
PivotRaises(df) ==
    \E i, j \in 1..Len(df) :
        i < j /\ df[i].date = df[j].date /\ df[i].country = df[j].country

\* The dates of a table in ascending order, each once.
RECURSIVE DistinctDates(_)
DistinctDates(sorted) ==
    IF sorted = <<>> THEN <<>>
    ELSE LET rest == DistinctDates(Tail(sorted))
         IN  IF rest # <<>> /\ rest[1] = sorted[1].date THEN rest
             ELSE <<sorted[1].date>> \o rest

\* The cell of the pivot table for a date and a country: missing when the
\* table has no such row.
PivotCell(df, date, name) ==
    IF \E k \in 1..Len(df) : df[k].date = date /\ df[k].country = name
    THEN df[CHOOSE k \in 1..Len(df) :
                df[k].date = date /\ df[k].country = name].inflation_rate
    ELSE NaN

\* Mutant of HigherInAustria: equal rates count as higher.
HigherOrEqual(difference) == ~IsNaN(difference) /\ difference >= 0

\* comparison['Difference (AT - EA)'] > 0: false for a missing difference.
HigherInAustria(difference) == ~IsNaN(difference) /\ difference > 0

\* compare_regions, lines 50-56, on a table that pivots.
CompareRegions(df) ==
    LET dates == DistinctDates(SortValues(df))
        both  == {"Oesterreich", "Eurozone"} \subseteq CountrySet(df)
    IN  [k \in 1..Len(dates) |->
            LET cells == [name \in CountrySet(df) |->
                             PivotCell(df, dates[k], name)]
                diff  == IF ~both THEN NaN
                         ELSE IF IsNaN(cells["Oesterreich"])
                                 \/ IsNaN(cells["Eurozone"]) THEN NaN
                         ELSE cells["Oesterreich"] - cells["Eurozone"]
            IN  IF both
                THEN [date |-> dates[k], cells |-> cells,
                      difference |-> diff, higher |-> HigherInAustria(diff)]
                ELSE [date |-> dates[k], cells |-> cells]]

\* Mutant of IdxMax: the last row holding the largest value.
IdxMaxLast(vals) ==
    CHOOSE i \in 1..Len(vals) :
        /\ \A j \in 1..Len(vals) : vals[j] <= vals[i]
        /\ \A j \in 1..Len(vals) : j > i => vals[j] < vals[i]

\* Series.idxmax(): the first row holding the largest value.
IdxMax(vals) ==
    CHOOSE i \in 1..Len(vals) :
        /\ \A j \in 1..Len(vals) : vals[j] <= vals[i]
        /\ \A j \in 1..Len(vals) : j < i => vals[j] < vals[i]

\* Series.idxmin(): the first row holding the smallest value.
IdxMin(vals) ==
    CHOOSE i \in 1..Len(vals) :
        /\ \A j \in 1..Len(vals) : vals[j] >= vals[i]
        /\ \A j \in 1..Len(vals) : j < i => vals[j] > vals[i]

\* identify_trends, lines 69-92 (the row labels of df being unique).
IdentifyTrends(df) ==
    [name \in CountrySet(df) |->
        LET region_data == SortValues(FilterGeo(df, LastGeoNamed(df, name)))
            vals == Values(region_data)
        IN  [highest_date |-> region_data[IdxMax(vals)].date,
             highest_rate |-> vals[IdxMax(vals)],
             lowest_date |-> region_data[IdxMin(vals)].date,
             lowest_rate |-> vals[IdxMin(vals)]]]

\* f"{n:0{width}d}": the last `width` digits of n.
RECURSIVE FormatNumber(_, _)
FormatNumber(n, width) ==
    IF width = 0 THEN <<>>
    ELSE FormatNumber(n \div 10, width - 1) \o <<Digits[(n % 10) + 1]>>

\* f"{d.year}-{d.month:02d}"
PeriodName(year, month) ==
    FormatNumber(year, 4) \o <<"-">> \o FormatNumber(month, 2)

\* The level _get_sample_data gives a region in a year, before noise.
SampleLevel(geo, year) ==
    CASE year = 2023 -> IF geo = "AT" THEN 680 ELSE 610
      [] year = 2024 -> IF geo = "AT" THEN 420 ELSE 380
      [] OTHER       -> IF geo = "AT" THEN 280
                        ELSE IF geo = "DE" THEN 230 ELSE 250

\* _get_sample_data, lines 65-81: the months 2023-01 .. 2025-10 for AT, DE
\* and EA20; the random draws are +noise and -noise in turn.
SampleData(noise) ==
    LET regions == <<"AT", "DE", "EA20">>
    IN  RawTable([k \in 1..34 |->
                     PeriodName(2023 + (k - 1) \div 12, ((k - 1) % 12) + 1)],
                 [r \in 1..3 |->
                     RawRow(regions[r], <<>>,
                            [k \in 1..34 |->
                                Cell("number",
                                     SampleLevel(regions[r],
                                                 2023 + (k - 1) \div 12)
                                     + (IF (k + r) % 2 = 0 THEN noise
                                        ELSE 0 - noise))])])

\* The rows of one region, in the order they were appended.
RowsOf(rows, geo) == SelectSeq(rows, LAMBDA r : r.geo = geo)

\* The region codes that occur in a table.
GeoSet(table) == {table[k].geo : k \in 1..Len(table)}

\* ----------------------------------------------------------------- inputs

\* The last observed value of every input series.
Anchor == (3 * Scale) \div 2

\* A monthly series of n observations ending in month ordinal `last`
\* (year * 12 + month - 1) on day-of-month `day`: a line of the given slope
\* per month through Anchor, with alternating noise; with `gap`, one month
\* is missing before the last two observations; with bad = "nan" the last
\* value is missing, with bad = "nan_first" the oldest value, with
\* bad = "nat" the date of the last row.
Shape(n, slope, noise, gap, last, day, bad) ==
    [n |-> n, slope |-> slope, noise |-> noise, gap |-> gap, last |-> last,
     day |-> day, bad |-> bad]

Absent == Shape(0, 0, 0, FALSE, 0, 1, "ok")

SeriesRows(geo, s) ==
    [k \in 1..s.n |->
        LET ord == s.last - (s.n - k)
                   - (IF s.gap /\ k <= s.n - 2 THEN 1 ELSE 0)
        IN  Row(geo,
                IF s.bad = "nat" /\ k = s.n THEN NaT
                ELSE Date(ord \div 12, (ord % 12) + 1, s.day),
                IF (s.bad = "nan" /\ k = s.n) \/ (s.bad = "nan_first" /\ k = 1)
                THEN NaN
                ELSE Anchor + s.slope * (k - s.n)
                     + (IF k % 2 = 1 THEN s.noise ELSE 0 - s.noise))]

December == 2024 * 12 + 11
March == 2025 * 12 + 2

Lengths == {1, 8, 12, 13, 25}
Slopes == {0 - 40, 0, 15}
Noises == {0, 20}
Calendars == {[gap |-> FALSE, last |-> March, day |-> 1],
              [gap |-> TRUE, last |-> December, day |-> 28]}

\* The series one region is given.
Shapes ==
    {Shape(n, sl, no, c.gap, c.last, c.day, "ok") :
        n \in Lengths, sl \in Slopes, no \in Noises, c \in Calendars}

\* The series of the second region.
FewShapes ==
    {Shape(8, 0 - 40, 20, FALSE, December, 1, "ok"),
     Shape(12, 0, 0, FALSE, December, 1, "ok"),
     Shape(13, 15, 20, TRUE, March, 15, "ok")}

\* The tidy table: every region's rows, in ascending date order.
Table(a, d) ==
    SortValues(SeriesRows(AllGeos[1], a) \o SeriesRows(AllGeos[2], d))

\* The value columns of the tables the statistics office returns: a column
\* that is no period, a month before 2002, two later months, a month 13 and
\* a hyphenated name that is no period.
RawColumns ==
    <<<<"u", "n", "i", "t">>, PeriodName(2001, 12), PeriodName(2002, 1),
      PeriodName(2024, 2), PeriodName(2024, 13), <<"n", "-", "a">>>>

AllItems == <<"C", "P", "0", "0">>
Food == <<"C", "P", "0", "1">>

\* The cells of a raw row.
CellPatterns ==
    {<<Cell("text", 0), Cell("number", 150), Cell("number", 210),
       Cell("number", 320), Cell("number", 99), Cell("number", 7)>>,
     <<Cell("text", 0), Cell("text", 0), Cell("numeral", 180),
       Cell("none", 0), Cell("number", 5), Cell("none", 0)>>,
     <<Cell("text", 0), Cell("number", 0 - 30), Cell("text", 0),
       Cell("number", 0), Cell("none", 0), Cell("text", 0)>>}

FirstRows == {<<RawRow("AT", AllItems, c)>> : c \in CellPatterns}

SecondRows ==
    {<<>>}
    \cup {<<RawRow(g, AllItems, c)>> : g \in {"AT", "DE", "FR"}, c \in CellPatterns}
    \cup {<<RawRow("AT", Food, c)>> : c \in CellPatterns}

EuroRows ==
    {<<>>,
     <<RawRow("EA19", AllItems, CHOOSE c \in CellPatterns : c[2].v = 150)>>,
     <<RawRow("EA20", AllItems, CHOOSE c \in CellPatterns : c[3].v = 180)>>,
     <<RawRow("EA19", AllItems, CHOOSE c \in CellPatterns : c[2].v = 150),
       RawRow("EA20", AllItems, CHOOSE c \in CellPatterns : c[3].v = 180)>>}

\* What eurostat.get_data_df returns.
EurostatTables ==
    {RawTable(RawColumns, a \o b \o c) :
        a \in FirstRows, b \in SecondRows, c \in EuroRows}

SampleNoises == {0, Scale \div 2}

Horizons == 1..MaxHorizon
Methods == {"holt_winters", "linear"}

\* ------------------------------------------------------------------ state

VARIABLES
    df,            \* the table the caller passes
    months_ahead,  \* the horizon the caller passes
    method,        \* the method the caller passes
    pc,            \* "loop", "returned" or "raised"
    todo,          \* the region codes the loop has still to visit
    forecasts,     \* the list `forecasts`
    library,       \* the answers the smoothing library has given so far
    trace,         \* per region visited: what was fitted (history)
    earlier,       \* the calls completed before this one (history)
    main           \* the script around the call: its position, raw_data,
                   \* the steps it has run (history) and its exit code

vars ==
    <<df, months_ahead, method, pc, todo, forecasts, library, trace, earlier,
      main>>

\* The script state: step is where it stands, log the calls it has made,
\* exit_code is -1 while it runs.
Script(step, raw_data, log, exit_code) ==
    [step |-> step, raw_data |-> raw_data, log |-> log,
     exit_code |-> exit_code]

\* forecast_inflation called on its own.
NotRunning == Script("none", RawTable(<<>>, <<>>), <<>>, 0 - 1)

\* The library's answer for a training series: the one it gave before, if
\* any.
AnswersFor(y) ==
    IF \E p \in library : p.y = y
    THEN {p.ans : p \in {q \in library : q.y = y}}
    ELSE FitAnswers(y)

NoAnswer == Answer("none", 0, 0)

\* Mutant of Enter: the list of an earlier call is appended to.
EnterKeepsForecasts(table, horizon, meth) ==
    /\ df' = table
    /\ months_ahead' = horizon
    /\ method' = meth
    /\ pc' = "loop"
    /\ todo' = UniqueGeos(table)
    /\ forecasts' = forecasts
    /\ trace' = <<>>

\* forecasts = []; for geo in df['geo'].unique():
Enter(table, horizon, meth) ==
    /\ df' = table
    /\ months_ahead' = horizon
    /\ method' = meth
    /\ pc' = "loop"
    /\ todo' = UniqueGeos(table)
    /\ forecasts' = <<>>
    /\ trace' = <<>>

Init ==
    /\ \E a \in Shapes \cup {Absent}, d \in FewShapes \cup {Absent} :
          df = Table(a, d)
    /\ months_ahead \in Horizons
    /\ method \in Methods
    /\ pc = "loop"
    /\ todo = UniqueGeos(df)
    /\ forecasts = <<>>
    /\ library = {}
    /\ trace = <<>>
    /\ earlier = <<>>
    /\ main = NotRunning

\* Mutant of Iterate: the caller's table is sorted in place.
IterateSortsInPlace(geo, ans, attempted) ==
    LET body == LoopBody(df, geo, months_ahead, method, ans)
    IN  /\ pc' = IF body.raised THEN "raised" ELSE "loop"
        /\ todo' = Tail(todo)
        /\ forecasts' = forecasts \o body.rows
        /\ trace' = Append(trace,
                       [geo |-> geo,
                        primary_attempted |-> attempted,
                        primary_raised |-> attempted /\ ans.kind = "raise",
                        fitted_on |-> body.fitted_on,
                        training |-> body.training])
        /\ df' = SortValues(df)
        /\ UNCHANGED <<months_ahead, method, earlier, main>>

\* The effect of one loop iteration on the state.
Iterate(geo, ans, attempted) ==
    LET body == LoopBody(df, geo, months_ahead, method, ans)
    IN  /\ pc' = IF body.raised THEN "raised" ELSE "loop"
        /\ todo' = Tail(todo)
        /\ forecasts' = forecasts \o body.rows
        /\ trace' = Append(trace,
                       [geo |-> geo,
                        primary_attempted |-> attempted,
                        primary_raised |-> attempted /\ ans.kind = "raise",
                        fitted_on |-> body.fitted_on,
                        training |-> body.training])
        /\ UNCHANGED <<df, months_ahead, method, earlier, main>>

\* A loop iteration on a region the primary method applies to: the library
\* is asked to fit the training window.
StepPrimary ==
    /\ pc = "loop"
    /\ todo # <<>>
    /\ LET region_data == RegionData(df, Head(todo))
       IN  /\ PrimaryApplies(method, TrainingWindow(region_data))
           /\ \E ans \in AnswersFor(Values(TrainingData(region_data))) :
                 /\ Iterate(Head(todo), ans, TRUE)
                 /\ library' = library \cup
                       {[y |-> Values(TrainingData(region_data)), ans |-> ans]}

\* A loop iteration on a region the primary method does not apply to.
StepFallback ==
    /\ pc = "loop"
    /\ todo # <<>>
    /\ ~PrimaryApplies(method, TrainingWindow(RegionData(df, Head(todo))))
    /\ Iterate(Head(todo), NoAnswer, FALSE)
    /\ UNCHANGED library

\* return pd.DataFrame(forecasts)
Return ==
    /\ pc = "loop"
    /\ todo = <<>>
    /\ pc' = "returned"
    /\ UNCHANGED <<df, months_ahead, method, todo, forecasts, library, trace,
                   earlier, main>>

Next == StepPrimary \/ StepFallback \/ Return

Spec == Init /\ [][Next]_vars


\* ------------------------------------------- a second call, one region altered

\* The series a region's rows are replaced by: changed, removed, or
\* corrupted (the last value missing).
AlteredShapes ==
    {Shape(12, 15, 0, FALSE, December, 1, "ok"),
     Shape(8, 15, 20, FALSE, March, 1, "nan"),
     Shape(13, 0 - 40, 20, FALSE, March, 1, "nan"),
     Absent}

\* The table with the rows of one region replaced.
ReplaceRegion(table, geo, s) ==
    SortValues(SelectSeq(table, LAMBDA r : r.geo # geo) \o SeriesRows(geo, s))

InitAltered ==
    /\ \E a \in FewShapes \cup {Absent}, d \in FewShapes \cup {Absent} :
          df = Table(a, d)
    /\ months_ahead \in Horizons
    /\ method \in Methods
    /\ pc = "loop"
    /\ todo = UniqueGeos(df)
    /\ forecasts = <<>>
    /\ library = {}
    /\ trace = <<>>
    /\ earlier = <<>>
    /\ main = NotRunning

\* After a call has returned, the caller alters the rows of one region and
\* calls again with the same horizon and method.
Alter ==
    /\ pc = "returned"
    /\ earlier = <<>>
    /\ \E g \in GeoSet(df), s \in AlteredShapes :
          /\ earlier' = <<[df |-> df, forecasts |-> forecasts, altered |-> g]>>
          /\ Enter(ReplaceRegion(df, g, s), months_ahead, method)
    /\ UNCHANGED <<library, main>>

NextAltered == StepPrimary \/ StepFallback \/ Return \/ Alter

SpecAltered == InitAltered /\ [][NextAltered]_vars

\* --------------------------------------- a second call, nothing altered

\* After a call has returned, the caller calls again with the same table,
\* horizon and method.
Repeat ==
    /\ pc = "returned"
    /\ earlier = <<>>
    /\ earlier' = <<[df |-> df, forecasts |-> forecasts, altered |-> "none"]>>
    /\ Enter(df, months_ahead, method)
    /\ UNCHANGED <<library, main>>

NextRepeat == StepPrimary \/ StepFallback \/ Return \/ Repeat

SpecRepeat == InitAltered /\ [][NextRepeat]_vars

\* ----------------------------------------------------------- two horizons

\* After a call has returned, the caller calls again with the same table and
\* method and a longer horizon, as main() (12 months) and
\* plot_inflation_comparison (6 months) do.
CallLonger ==
    /\ pc = "returned"
    /\ earlier = <<>>
    /\ \E longer \in Horizons :
          /\ longer > months_ahead
          /\ Enter(df, longer, method)
    /\ earlier' = <<[df |-> df, forecasts |-> forecasts,
                     altered |-> "horizon", months_ahead |-> months_ahead]>>
    /\ UNCHANGED <<library, main>>

NextHorizons == StepPrimary \/ StepFallback \/ Return \/ CallLonger

SpecHorizons == InitAltered /\ [][NextHorizons]_vars

\* ------------------------------------- tables that break the precondition

\* Series with a missing value or a missing date.
MalformedShapes ==
    {Shape(8, 15, 20, FALSE, March, 1, "nan"),
     Shape(13, 0 - 40, 20, FALSE, March, 1, "nan"),
     Shape(13, 15, 0, FALSE, December, 1, "nan_first"),
     Shape(25, 15, 20, FALSE, March, 1, "nan_first"),
     Shape(8, 0, 0, FALSE, March, 1, "nat"),
     Shape(13, 0, 20, FALSE, March, 1, "nat")}

\* The caller passes a table in which one region breaks the precondition.
InitMalformed ==
    /\ \E a \in MalformedShapes, d \in FewShapes \cup {Absent} :
          df = Table(a, d)
    /\ months_ahead \in Horizons
    /\ method \in Methods
    /\ pc = "loop"
    /\ todo = UniqueGeos(df)
    /\ forecasts = <<>>
    /\ library = {}
    /\ trace = <<>>
    /\ earlier = <<>>
    /\ main = NotRunning

SpecMalformed == InitMalformed /\ [][Next]_vars

\* --------------------------------------------- tables in any row order

\* The rows of a table in another order: by date, latest first, or the
\* rows at odd positions followed by the rows at even positions.
Arrange(rows, order) ==
    CASE order = "reversed" ->
            [k \in 1..Len(rows) |-> rows[Len(rows) + 1 - k]]
      [] order = "interleaved" ->
            LET odds == (Len(rows) + 1) \div 2
            IN  [k \in 1..Len(rows) |->
                    IF k <= odds THEN rows[2 * k - 1]
                    ELSE rows[2 * (k - odds)]]
      [] OTHER -> rows

Orders == {"by_date", "reversed", "interleaved"}

ShuffledShapes ==
    {Shape(8, 0 - 40, 20, FALSE, December, 1, "ok"),
     Shape(13, 15, 20, TRUE, March, 15, "ok"),
     Shape(25, 15, 20, TRUE, December, 28, "ok"),
     Shape(25, 0 - 40, 0, FALSE, March, 1, "ok")}

\* The caller passes a table whose rows are in any order.
InitShuffled ==
    /\ \E a \in ShuffledShapes, d \in FewShapes \cup {Absent}, o \in Orders :
          df = Arrange(Table(a, d), o)
    /\ months_ahead \in Horizons
    /\ method \in Methods
    /\ pc = "loop"
    /\ todo = UniqueGeos(df)
    /\ forecasts = <<>>
    /\ library = {}
    /\ trace = <<>>
    /\ earlier = <<>>
    /\ main = NotRunning

SpecShuffled == InitShuffled /\ [][Next]_vars

\* ------------------------------------------------- fetching and cleaning

InitClean ==
    /\ main = Script("fetch", RawTable(<<>>, <<>>), <<>>, 0 - 1)
    /\ df = <<>>
    /\ months_ahead = 12
    /\ method = "holt_winters"
    /\ pc = "idle"
    /\ todo = <<>>
    /\ forecasts = <<>>
    /\ library = {}
    /\ trace = <<>>
    /\ earlier = <<>>

\* fetch_inflation_data: the filtered table of the statistics office, or
\* the sample data when anything in the try block raises.
FetchInflationData ==
    /\ main.step = "fetch"
    /\ \E raw \in {FilterFetched(t) : t \in EurostatTables}
                  \cup {SampleData(e) : e \in SampleNoises} :
          main' = [main EXCEPT !.step = "process", !.raw_data = raw,
                               !.log = Append(main.log,
                                          [name |-> "fetch_inflation_data",
                                           outcome |-> "returned"])]
    /\ UNCHANGED <<df, months_ahead, method, pc, todo, forecasts, library,
                   trace, earlier>>

\* df = process_inflation_data(raw_data)
Process ==
    /\ main.step = "process"
    /\ df' = ProcessInflationData(main.raw_data)
    /\ main' = [main EXCEPT !.step = "processed",
                            !.log = Append(main.log,
                                       [name |-> "process_inflation_data",
                                        outcome |-> "returned"])]
    /\ UNCHANGED <<months_ahead, method, pc, todo, forecasts, library, trace,
                   earlier>>

NextClean == FetchInflationData \/ Process

SpecClean == InitClean /\ [][NextClean]_vars

\* -------------------------------------------- fetching, cleaning, analysis

\* stats = calculate_statistics(df)
Statistics ==
    /\ main.step = "processed"
    /\ \E tie \in {"first", "last"} :
          main' = [main EXCEPT
                     !.step = "statistics",
                     !.log = Append(main.log,
                                [name |-> "calculate_statistics",
                                 outcome |-> "returned",
                                 result |-> CalculateStatistics(df, tie)])]
    /\ UNCHANGED <<df, months_ahead, method, pc, todo, forecasts, library,
                   trace, earlier>>

\* comparison = compare_regions(df): the pivot table, or its ValueError.
Compare ==
    /\ main.step = "statistics"
    /\ main' = IF PivotRaises(df)
               THEN [main EXCEPT
                       !.step = "Exception",
                       !.log = Append(main.log,
                                  [name |-> "compare_regions",
                                   outcome |-> "Exception",
                                   result |-> <<>>])]
               ELSE [main EXCEPT
                       !.step = "comparison",
                       !.log = Append(main.log,
                                  [name |-> "compare_regions",
                                   outcome |-> "returned",
                                   result |-> CompareRegions(df)])]
    /\ UNCHANGED <<df, months_ahead, method, pc, todo, forecasts, library,
                   trace, earlier>>

\* trends = identify_trends(df)
Trends ==
    /\ main.step = "comparison"
    /\ main' = [main EXCEPT
                  !.step = "trends",
                  !.log = Append(main.log,
                             [name |-> "identify_trends",
                              outcome |-> "returned",
                              result |-> IdentifyTrends(df)])]
    /\ UNCHANGED <<df, months_ahead, method, pc, todo, forecasts, library,
                   trace, earlier>>

NextAnalysis ==
    FetchInflationData \/ Process \/ Statistics \/ Compare \/ Trends

SpecAnalysis == InitClean /\ [][NextAnalysis]_vars

\* --------------------------------------------------------------- fetching

\* A table without a coicop column.
Uncoded == RawTable(RawColumns, <<RawRow("AT", <<>>, CHOOSE c \in CellPatterns : c[2].v = 150)>>)

\* What get_data_df does: it returns a table, raises an Exception (network,
\* service) or is interrupted by the user.
Retrievals ==
    {[event |-> "returns", table |-> t] : t \in EurostatTables \cup {Uncoded}}
    \cup {[event |-> e, table |-> RawTable(<<>>, <<>>)] :
              e \in {"Exception", "KeyboardInterrupt"}}

\* config.countries of the package version.
CountryLists == {{"AT", "DE", "EA20"}, {"AT", "EA19"}}

InitFetch ==
    /\ main = Script("fetch", RawTable(<<>>, <<>>), <<>>, 0 - 1)
    /\ df = <<>>
    /\ months_ahead = 12
    /\ method = "holt_winters"
    /\ pc = "idle"
    /\ todo = <<>>
    /\ forecasts = <<>>
    /\ library = {}
    /\ trace = <<>>
    /\ earlier = <<>>

\* The script state after fetch_inflation_data: the table returned, or the
\* exception that left the function.
Fetched(version, available, got, filtered, outcome, result) ==
    [main EXCEPT
        !.step = IF outcome = "returned" THEN "process" ELSE outcome,
        !.raw_data = result,
        !.log = Append(main.log,
                   [name |-> "fetch_inflation_data", version |-> version,
                    available |-> available, event |-> got.event,
                    source |-> got.table, filtered |-> filtered,
                    outcome |-> outcome, result |-> result])]

\* fetch_inflation_data of src/data_fetcher.py: retrieval and filtering are
\* inside one try with `except Exception`, which returns the sample data.
FetchScript ==
    /\ main.step = "fetch"
    /\ \E got \in Retrievals, e \in SampleNoises :
          LET raised == IF got.event = "returns"
                        THEN (IF FilterRaises(got.table) THEN "Exception"
                              ELSE "none")
                        ELSE got.event
          IN  main' =
                IF raised = "none"
                THEN Fetched("script", TRUE, got, KeptRows(got.table),
                             "returned", FilterFetched(got.table))
                ELSE IF ExceptException(raised)
                THEN Fetched("script", TRUE, got, <<>>, "returned",
                             SampleData(e))
                ELSE Fetched("script", TRUE, got, <<>>, raised,
                             RawTable(<<>>, <<>>))
    /\ UNCHANGED <<df, months_ahead, method, pc, todo, forecasts, library,
                   trace, earlier>>

\* fetch_inflation_data of src/inflation_report/data.py: the sample data
\* when the library is missing or the retrieval raises an Exception; the
\* filtering is outside the try.
FetchPackage ==
    /\ main.step = "fetch"
    /\ \E available \in BOOLEAN, got \in Retrievals, e \in SampleNoises,
          countries \in CountryLists :
          main' =
            IF ~available
            THEN Fetched("package", FALSE,
                         [event |-> "none", table |-> RawTable(<<>>, <<>>)],
                         <<>>, "returned", SampleData(e))
            ELSE IF got.event = "returns"
            THEN IF FilterRaises(got.table)
                 THEN Fetched("package", TRUE, got, <<>>, "Exception",
                              RawTable(<<>>, <<>>))
                 ELSE Fetched("package", TRUE, got,
                              KeptRowsPackage(got.table, countries),
                              "returned", FilterPackage(got.table, countries))
            ELSE IF ExceptException(got.event)
            THEN Fetched("package", TRUE, got, <<>>, "returned", SampleData(e))
            ELSE Fetched("package", TRUE, got, <<>>, got.event,
                         RawTable(<<>>, <<>>))
    /\ UNCHANGED <<df, months_ahead, method, pc, todo, forecasts, library,
                   trace, earlier>>

NextFetch == FetchScript \/ FetchPackage

SpecFetch == InitFetch /\ [][NextFetch]_vars

\* ------------------------------------------------------------ the script

\* A call main() makes: its name, the stage of the report it belongs to, and
\* whether the callee catches Exception itself and returns a substitute.
Call(name, stage, catches) == [name |-> name, stage |-> stage, catches |-> catches]

\* The calls of main(), lines 41-96, in program order.
MainCalls ==
    <<Call("fetch_inflation_data", "fetch", TRUE),
      Call("process_inflation_data", "clean", FALSE),
      Call("fetch_ecb_interest_rates", "rates", TRUE),
      Call("forecast_inflation", "forecast", FALSE),
      Call("calculate_statistics", "analyze", FALSE),
      Call("compare_regions", "analyze", FALSE),
      Call("identify_trends", "analyze", FALSE),
      Call("create_output_directory", "charts", FALSE),
      Call("plot_inflation_comparison", "charts", FALSE),
      Call("plot_inflation_with_forecast", "charts", FALSE),
      Call("plot_ecb_interest_rates", "charts", FALSE),
      Call("plot_difference", "charts", FALSE),
      Call("plot_statistics_comparison", "charts", FALSE),
      Call("plot_historical_comparison", "charts", TRUE),
      Call("plot_eu_heatmap", "charts", TRUE),
      Call("generate_text_report", "reports", FALSE),
      Call("generate_html_report", "reports", FALSE),
      Call("print_summary", "summary", FALSE)>>

\* What can happen inside a call: it completes, an Exception is raised in
\* it, or the user interrupts it.
Events == {"completes", "Exception", "KeyboardInterrupt"}

\* What main() sees of a call: it returned, or the exception came out of it
\* (`except Exception` in the callee does not catch KeyboardInterrupt).
Outcome(call, event) ==
    CASE event = "completes" -> "returned"
      [] event = "Exception" /\ call.catches -> "returned"
      [] OTHER -> event

\* Mutant of HandlerExitCode: a cancelled run counts as a success.
HandlerExitCodeCancelIsSuccess(raised) ==
    IF raised = "KeyboardInterrupt" THEN 0 ELSE 1

\* Lines 110-117: both except clauses end in sys.exit(1).
HandlerExitCode(raised) ==
    CASE raised = "KeyboardInterrupt" -> 1
      [] OTHER -> 1

InitMain ==
    /\ main = Script("running", RawTable(<<>>, <<>>), <<>>, 0 - 1)
    /\ df = <<>>
    /\ months_ahead = 12
    /\ method = "holt_winters"
    /\ pc = "idle"
    /\ todo = <<>>
    /\ forecasts = <<>>
    /\ library = {}
    /\ trace = <<>>
    /\ earlier = <<>>

\* The next call of main(): it returns and main() goes on, or its exception
\* leaves main().
MainCall ==
    /\ main.step = "running"
    /\ Len(main.log) < Len(MainCalls)
    /\ \E event \in Events :
          LET call == MainCalls[Len(main.log) + 1]
              seen == Outcome(call, event)
          IN  main' = [main EXCEPT
                         !.step = IF seen = "returned" THEN "running"
                                  ELSE seen,
                         !.log = Append(main.log,
                                    [name |-> call.name, stage |-> call.stage,
                                     event |-> event, outcome |-> seen])]
    /\ UNCHANGED <<df, months_ahead, method, pc, todo, forecasts, library,
                   trace, earlier>>

\* return 0; sys.exit(main())
MainReturn ==
    /\ main.step = "running"
    /\ Len(main.log) = Len(MainCalls)
    /\ main' = [main EXCEPT !.step = "exited", !.exit_code = 0]
    /\ UNCHANGED <<df, months_ahead, method, pc, todo, forecasts, library,
                   trace, earlier>>

\* except KeyboardInterrupt: ... sys.exit(1) / except Exception: ... sys.exit(1)
MainHandler ==
    /\ main.step \in {"Exception", "KeyboardInterrupt"}
    /\ main' = [main EXCEPT !.step = "exited",
                            !.exit_code = HandlerExitCode(main.step)]
    /\ UNCHANGED <<df, months_ahead, method, pc, todo, forecasts, library,
                   trace, earlier>>

NextMain == MainCall \/ MainReturn \/ MainHandler

SpecMain == InitMain /\ [][NextMain]_vars

\* ----------------------------------------------------------------- claims

\* Number of months between year 0 and the month of a date.
MonthOrdinal(t) == t.y * 12 + t.m - 1

\* The month of the latest observation of a region.
LatestMonth(table, geo) ==
    CHOOSE o \in {MonthOrdinal(table[k].date) :
                     k \in {j \in 1..Len(table) : table[j].geo = geo}} :
        \A k \in 1..Len(table) :
            table[k].geo = geo => MonthOrdinal(table[k].date) <= o

\* upper_bound - lower_bound of a row.
Width(r) == r.upper_bound - r.lower_bound

\* C1: every forecast row has lower_bound <= point estimate <= upper_bound,
\* also when the trend drives the point estimate below zero.
C1_BandOrdering ==
    \A k \in 1..Len(forecasts) :
        /\ forecasts[k].lower_bound <= forecasts[k].inflation_rate
        /\ forecasts[k].inflation_rate <= forecasts[k].upper_bound

\* C2: for every region of the input the returned dates are exactly
\* months_ahead consecutive month starts, the first in the calendar month
\* after the region's latest observation (December rolls to January),
\* whatever the day-of-month of the latest date and the gaps in the history.
C2_ForecastDates ==
    pc = "returned" =>
        \A g \in GeoSet(df) :
            LET rows == RowsOf(forecasts, g)
            IN  /\ Len(rows) = months_ahead
                /\ \A i \in 1..Len(rows) :
                      /\ rows[i].date.d = 1
                      /\ rows[i].date.m \in 1..12
                      /\ MonthOrdinal(rows[i].date) = LatestMonth(df, g) + i

\* C2 witness: a returned forecast of a region whose latest observation is
\* in December, not on the first of the month, with a gap in its history;
\* the first forecast date is the first of January of the next year.
C2_Witness ==
    /\ pc = "returned"
    /\ \E g \in GeoSet(df) :
          /\ \E k \in 1..Len(df) :
                /\ df[k].geo = g
                /\ MonthOrdinal(df[k].date) = LatestMonth(df, g)
                /\ df[k].date.m = 12
                /\ df[k].date.d # 1
          /\ \E o \in 0..24 :
                /\ LatestMonth(df, g) - o
                      \notin {MonthOrdinal(df[k].date) : k \in 1..Len(df)}
                /\ \E k \in 1..Len(df) :
                      df[k].geo = g /\ MonthOrdinal(df[k].date) < LatestMonth(df, g) - o
          /\ Len(RowsOf(forecasts, g)) >= 2
          /\ RowsOf(forecasts, g)[1].date = Date(2025, 1, 1)

\* C4 as stated: for a fixed region the band width is non-decreasing in the
\* forecast step, for every input series (also a falling one whose lower
\* bound is clamped at zero).
C4_WidthNonDecreasing ==
    \A g \in GeoSet(df) :
        LET rows == RowsOf(forecasts, g)
        IN  \A i, j \in 1..Len(rows) :
                i < j => Width(rows[i]) <= Width(rows[j])

\* C4 as amended: for a fixed region and steps i < j, the half-width
\* upper_bound - point estimate is non-decreasing, and the band width is
\* non-decreasing whenever the lower bound of step j is not clamped (its
\* point estimate minus its uncertainty is not negative).
C4_WidthUnlessClamped ==
    \A g \in GeoSet(df) :
        LET rows == RowsOf(forecasts, g)
        IN  \A i, j \in 1..Len(rows) :
                i < j =>
                    /\ rows[i].upper_bound - rows[i].inflation_rate
                          <= rows[j].upper_bound - rows[j].inflation_rate
                    /\ 2 * rows[j].inflation_rate - rows[j].upper_bound >= 0
                          => Width(rows[i]) <= Width(rows[j])

\* C4 witness: a region with residual noise whose band is strictly wider at
\* a later step, the later step's lower bound not being clamped.
C4_Witness ==
    \E g \in GeoSet(df) :
        LET rows == RowsOf(forecasts, g)
        IN  \E i, j \in 1..Len(rows) :
                /\ i < j
                /\ rows[i].std_error > 0
                /\ 2 * rows[j].inflation_rate - rows[j].upper_bound >= 0
                /\ Width(rows[i]) < Width(rows[j])

\* C5: every forecast row has lower_bound >= 0, also when the point
\* estimate minus the uncertainty is negative.
C5_LowerBoundFloor ==
    \A k \in 1..Len(forecasts) : forecasts[k].lower_bound >= 0

\* C5 witness: a row whose point estimate minus uncertainty is negative and
\* whose lower bound is 0.
C5_Witness ==
    \E k \in 1..Len(forecasts) :
        /\ forecasts[k].std_error > 0
        /\ 2 * forecasts[k].inflation_rate - forecasts[k].upper_bound < 0
        /\ forecasts[k].lower_bound = 0


\* Number of observations a table holds for a region.
Observations(table, geo) == Len(FilterGeo(table, geo))

\* C6: for a region with fewer than 12 observations the primary fit is
\* never attempted (the library is never handed fewer than 12 values) and
\* every forecast row of the region carries the linear-trend label.
C6_ShortSeriesLinear ==
    /\ \A p \in library : Len(p.y) >= 12
    /\ \A k \in 1..Len(trace) :
          Observations(df, trace[k].geo) < 12 =>
              /\ ~trace[k].primary_attempted
              /\ \A i \in 1..Len(forecasts) :
                    forecasts[i].geo = trace[k].geo =>
                        forecasts[i].method = LinearTrend

\* C6 witness: a call with the default method has forecast a region of 8
\* observations, with the linear-trend label.
C6_Witness ==
    /\ pc = "returned"
    /\ method = "holt_winters"
    /\ \E g \in GeoSet(df) :
          /\ Observations(df, g) = 8
          /\ Len(RowsOf(forecasts, g)) = months_ahead
          /\ \A i \in 1..months_ahead :
                RowsOf(forecasts, g)[i].method = LinearTrend

\* The label a region's rows carry when its own primary fit decides it.
OwnMethod(k) ==
    IF method = "holt_winters" /\ Observations(df, trace[k].geo) >= 12
       /\ ~trace[k].primary_raised
    THEN HoltWinters ELSE LinearTrend

\* C7: when the primary fit raises for a region, the error does not leave
\* the call, that region is forecast with the linear fallback and labelled
\* so, and every other region is forecast with the method its own data and
\* its own fit give it.
C7_FitFailureIsLocal ==
    /\ (\E k \in 1..Len(trace) : trace[k].primary_raised) => pc # "raised"
    /\ \A k \in 1..Len(trace) :
          LET rows == RowsOf(forecasts, trace[k].geo)
          IN  /\ Len(rows) = months_ahead
              /\ \A i \in 1..Len(rows) : rows[i].method = OwnMethod(k)
    /\ pc = "returned" => Len(trace) = Cardinality(GeoSet(df))

\* C7 witness: the call returned after the primary fit raised for the first
\* region visited and succeeded for the second.
C7_Witness ==
    /\ pc = "returned"
    /\ Len(trace) = 2
    /\ trace[1].primary_raised
    /\ trace[2].primary_attempted /\ ~trace[2].primary_raised
    /\ RowsOf(forecasts, trace[1].geo)[1].method = LinearTrend
    /\ RowsOf(forecasts, trace[2].geo)[1].method = HoltWinters

\* C8: the training_months of every forecast row is the number of
\* observations the method named on the row was fitted on; with the linear
\* fallback on more than 12 observations that is the fallback's window.
C8_TrainingMonthsIsFittedWindow ==
    \A k \in 1..Len(trace) :
        \A i \in 1..Len(forecasts) :
            forecasts[i].geo = trace[k].geo =>
                forecasts[i].training_months = trace[k].fitted_on

\* Month offset of a date from the first date of a window.
OffsetFrom(first, t) == (t.y - first.y) * 12 + (t.m - first.m)

\* C9: in the linear fallback the forecast of step i (0-based) is the fitted
\* line at the offset of the last training observation + 1 + i, which is the
\* offset of the emitted date from the first date of the window; also for
\* windows of fewer than 12 observations or with missing months.
C9_FallbackContinuesOffsets ==
    \A g \in GeoSet(df) :
        LET rows   == RowsOf(forecasts, g)
            recent == TailRows(RegionData(df, g), 12)
            X      == MonthOffsets(recent)
            line   == FitLine(X, Values(recent))
        IN  \A i \in 1..Len(rows) :
                rows[i].method = LinearTrend =>
                    /\ X[Len(X)] + i = OffsetFrom(recent[1].date, rows[i].date)
                    /\ rows[i].inflation_rate = Predict(line, X[Len(X)] + i)

\* C10: a region without rows gets no forecast rows, and a call on a table
\* without rows returns an empty result and does not raise.
C10_EmptySeries ==
    /\ \A k \in 1..Len(forecasts) : Observations(df, forecasts[k].geo) > 0
    /\ df = <<>> =>
          /\ pc # "raised"
          /\ forecasts = <<>>
          /\ ENABLED Return \/ pc = "returned"

\* C10 witness: the call on the table without rows has returned no rows.
C10_Witness == pc = "returned" /\ df = <<>> /\ forecasts = <<>>


\* The rows the caller holds for a region after the call: none when the
\* call raised.
ReturnedRows(geo) == IF pc = "returned" THEN RowsOf(forecasts, geo) ELSE <<>>

C11_OneRowPerRegionMonth ==
    /\ \A i, j \in 1..Len(forecasts) :
          (forecasts[i].geo = forecasts[j].geo
           /\ forecasts[i].date = forecasts[j].date) => i = j
    /\ pc = "returned" =>
          /\ Len(forecasts) = Cardinality(GeoSet(df)) * months_ahead
          /\ \A g \in GeoSet(df) : Len(RowsOf(forecasts, g)) = months_ahead
          /\ \A k \in 1..Len(forecasts) : forecasts[k].geo \in GeoSet(df)

\* C11 witness: two regions and the longest horizon, returned with
\* 2 * MaxHorizon rows.
C11_Witness ==
    /\ pc = "returned"
    /\ Cardinality(GeoSet(df)) = 2
    /\ months_ahead = MaxHorizon
    /\ Len(forecasts) = 2 * MaxHorizon

\* C12: with the default method, the rows of a region with at least 12
\* observations whose primary fit did not raise all carry the damped-trend
\* label, and a row carries the linear-trend label only when its region has
\* fewer than 12 observations or its primary fit raised.
C12_PrimaryLabel ==
    (pc = "returned" /\ method = "holt_winters") =>
        \A k \in 1..Len(trace) :
            LET rows == RowsOf(forecasts, trace[k].geo)
                n    == Observations(df, trace[k].geo)
            IN  /\ (n >= 12 /\ ~trace[k].primary_raised) =>
                      /\ rows # <<>>
                      /\ \A i \in 1..Len(rows) : rows[i].method = HoltWinters
                /\ (\E i \in 1..Len(rows) : rows[i].method = LinearTrend) =>
                      (n < 12 \/ trace[k].primary_raised)

\* C12 witness: the default method returned damped-trend rows for a region
\* of exactly 12 observations and linear-trend rows for a region of 13
\* observations whose primary fit raised.
C12_Witness ==
    /\ pc = "returned"
    /\ method = "holt_winters"
    /\ \E k, l \in 1..Len(trace) :
          /\ Observations(df, trace[k].geo) = 12
          /\ ~trace[k].primary_raised
          /\ RowsOf(forecasts, trace[k].geo)[1].method = HoltWinters
          /\ Observations(df, trace[l].geo) = 13
          /\ trace[l].primary_raised
          /\ RowsOf(forecasts, trace[l].geo)[1].method = LinearTrend

\* The rows a table holds for a region, as a set.
RowSet(table, geo) ==
    {table[j] : j \in {i \in 1..Len(table) : table[i].geo = geo}}

\* C13: the training window of a region of n observations is its
\* Min(24, n) observations with the latest dates, in ascending date order,
\* whatever the order of the rows in the input table; the primary fit is
\* handed the values of exactly that window.
C13_TrainingWindow ==
    \A k \in 1..Len(trace) :
        LET training == trace[k].training
            all      == RowSet(df, trace[k].geo)
            taken    == {training[i] : i \in 1..Len(training)}
        IN  /\ Len(training) = Min(24, Cardinality(all))
            /\ taken \subseteq all
            /\ \A i, j \in 1..Len(training) :
                  i < j => DateLess(training[i].date, training[j].date)
            /\ \A r \in all \ taken : \A t \in taken : DateLess(r.date, t.date)
            /\ trace[k].primary_attempted =>
                  \E p \in library : p.y = Values(training)

\* C13 witness: a region of 25 observations passed latest row first was
\* trained on 24 rows, the first of them not the first of its rows in the
\* input.
C13_Witness ==
    /\ pc = "returned"
    /\ \E k \in 1..Len(trace) :
          /\ Cardinality(RowSet(df, trace[k].geo)) = 25
          /\ Len(trace[k].training) = 24
          /\ trace[k].primary_attempted
          /\ \E i, j \in 1..Len(df) :
                /\ i < j
                /\ df[i].geo = trace[k].geo
                /\ df[j].geo = trace[k].geo
                /\ DateLess(df[j].date, df[i].date)

\* upper_bound - point estimate of a row.
HalfWidth(r) == r.upper_bound - r.inflation_rate

\* C14: with u the half-width upper_bound - point estimate of the row of
\* step i (0-based), lower_bound = max(0, point estimate - u);
\* u = std_error * 1.96 * sqrt(1 + i / 6) up to the truncation of the
\* fixed-point arithmetic (4 units of 1 / Scale), that is
\* u^2 * 6 = (1.96 * std_error)^2 * (6 + i); u at step 0 is
\* 1.96 * std_error; u is the same for rows of equal std_error and step
\* (whatever their region) and is non-decreasing in the step.
C14_BoundsFormula ==
    \A g \in GeoSet(df) :
        LET rows == RowsOf(forecasts, g)
        IN  \A i \in 1..Len(rows) :
                LET u == HalfWidth(rows[i])
                    s == rows[i].std_error
                IN  /\ rows[i].lower_bound
                          = Max(0, rows[i].inflation_rate - u)
                    /\ s >= 0
                    /\ (100 * u) * (100 * u) * 6
                          <= (196 * s) * (196 * s) * (6 + (i - 1))
                    /\ (196 * s) * (196 * s) * (6 + (i - 1))
                          <= (100 * (u + 4)) * (100 * (u + 4)) * 6
                    /\ i = 1 => (100 * u <= 196 * s /\ 196 * s < 100 * (u + 1))
                    /\ \A j \in 1..Len(rows) :
                          i < j => u <= HalfWidth(rows[j])
                    /\ \A h \in GeoSet(df) :
                          (Len(RowsOf(forecasts, h)) >= i
                           /\ RowsOf(forecasts, h)[i].std_error = s)
                              => HalfWidth(RowsOf(forecasts, h)[i]) = u

\* C14 witness: a returned region with residual error whose uncertainty
\* grows over three steps, and a second region whose std_error differs.
C14_Witness ==
    /\ pc = "returned"
    /\ \E g, h \in GeoSet(df) :
          LET rows == RowsOf(forecasts, g)
          IN  /\ Len(rows) = 3
              /\ rows[1].std_error > 0
              /\ HalfWidth(rows[1]) < HalfWidth(rows[2])
              /\ HalfWidth(rows[2]) < HalfWidth(rows[3])
              /\ RowsOf(forecasts, h)[1].std_error # rows[1].std_error

\* C15: for a region with fewer than 12 observations that all have the same
\* value v, every forecast row has point estimate v, std_error 0 and the
\* linear-trend label, and a returned call holds months_ahead such rows.
C15_FlatShortSeries ==
    \A g \in GeoSet(df) :
        LET y == Values(FilterGeo(df, g))
        IN  (Len(y) < 12 /\ \A k \in 1..Len(y) : y[k] = y[1]) =>
                /\ \A i \in 1..Len(forecasts) :
                      forecasts[i].geo = g =>
                          /\ forecasts[i].inflation_rate = y[1]
                          /\ forecasts[i].std_error = 0
                          /\ forecasts[i].method = LinearTrend
                /\ pc = "returned" => Len(RowsOf(forecasts, g)) = months_ahead

\* C15 witness: a returned call on a region of 8 equal observations, a
\* month missing among them, with MaxHorizon rows at that value.
C15_Witness ==
    /\ pc = "returned"
    /\ months_ahead = MaxHorizon
    /\ \E g \in GeoSet(df) :
          LET region == RegionData(df, g)
          IN  /\ Len(region) = 8
              /\ \A k \in 1..8 : region[k].inflation_rate = Anchor
              /\ OffsetFrom(region[1].date, region[8].date) = 8
              /\ Len(RowsOf(forecasts, g)) = MaxHorizon
              /\ RowsOf(forecasts, g)[MaxHorizon].inflation_rate = Anchor

\* C16: the table process_inflation_data returns holds at most one row per
\* (region code, date), for every raw table fetched.
C16_Deduplicated ==
    main.step = "processed" =>
        \A i, j \in 1..Len(df) :
            (df[i].geo = df[j].geo /\ df[i].date = df[j].date) => i = j

\* The (row, column) positions of a raw table that hold a number, or text
\* spelling one, in a column named YYYY-MM for a month of 2002 or later.
ValidCells(t) ==
    {rc \in (1..Len(t.rows)) \X (1..Len(t.columns)) :
        /\ t.rows[rc[1]].cells[rc[2]].kind \in {"number", "numeral"}
        /\ \E y \in 2002..2025, m \in 1..12 :
              t.columns[rc[2]] = PeriodName(y, m)}

\* C17: every row process_inflation_data returns has a numeric rate and a
\* valid date on or after 2002-01-01, and the rows are in ascending date
\* order; a cell that is not numeric or stands in a column that is no
\* YYYY-MM period (or one before 2002) yields no row, and every other cell
\* yields one row with its region, month and value.
C17_CleanRows ==
    main.step = "processed" =>
        /\ \A k \in 1..Len(df) :
              /\ ~IsNaN(df[k].inflation_rate)
              /\ df[k].date # NaT
              /\ df[k].date.m \in 1..12
              /\ df[k].date.d = 1
              /\ df[k].date.y >= 2002
              /\ df[k].year = df[k].date.y
        /\ \A i, j \in 1..Len(df) :
              i < j => ~DateLess(df[j].date, df[i].date)
        /\ Len(df) = Cardinality(ValidCells(main.raw_data))
        /\ \A rc \in ValidCells(main.raw_data) :
              LET r == main.raw_data.rows[rc[1]]
              IN  \E k \in 1..Len(df) :
                      /\ df[k].geo = r.geo
                      /\ df[k].inflation_rate = r.cells[rc[2]].v
                      /\ PeriodName(df[k].date.y, df[k].date.m)
                            = main.raw_data.columns[rc[2]]

\* C17 witness: a raw table with text in a 2002 column, a number in a 2001
\* column and a number in a month-13 column was cleaned to a table with
\* rows, fewer than its numeric cells.
C17_Witness ==
    /\ main.step = "processed"
    /\ Len(df) > 0
    /\ \E r \in 1..Len(main.raw_data.rows) :
          \E a, b, c \in 1..Len(main.raw_data.columns) :
              /\ main.raw_data.columns[a] = PeriodName(2002, 1)
              /\ main.raw_data.rows[r].cells[a].kind = "text"
              /\ main.raw_data.columns[b] = PeriodName(2001, 12)
              /\ main.raw_data.rows[r].cells[b].kind = "number"
              /\ main.raw_data.columns[c] = PeriodName(2024, 13)
    /\ \E r \in 1..Len(main.raw_data.rows) :
          \E c \in 1..Len(main.raw_data.columns) :
              /\ main.raw_data.columns[c] = PeriodName(2024, 13)
              /\ main.raw_data.rows[r].cells[c].kind = "number"

\* Position of a stage in the order fetch, clean, (interest rates,)
\* forecast, analyze, charts, reports, summary.
StageRank(stage) ==
    CASE stage = "fetch" -> 1
      [] stage = "clean" -> 2
      [] stage = "rates" -> 3
      [] stage = "forecast" -> 4
      [] stage = "analyze" -> 5
      [] stage = "charts" -> 6
      [] stage = "reports" -> 7
      [] OTHER -> 8

\* The stages main() has entered.
Stages(log) == {log[k].stage : k \in 1..Len(log)}

\* C18: main() runs its steps in the order fetch, clean, forecast, analyze,
\* charts, text and HTML reports, summary; a step starts only after every
\* earlier step has returned; no step starts after one whose exception
\* (KeyboardInterrupt included) left it; the exit code is 0 only if every
\* step returned, and 1 if an exception left a step.
C18_StepOrder ==
    /\ \A i, j \in 1..Len(main.log) :
          i < j =>
              /\ StageRank(main.log[i].stage) <= StageRank(main.log[j].stage)
              /\ main.log[i].name # main.log[j].name
              /\ main.log[i].outcome = "returned"
    /\ \A k \in 1..Len(main.log) :
          \A st \in {"fetch", "clean", "forecast", "analyze", "charts",
                      "reports", "summary"} :
              StageRank(st) < StageRank(main.log[k].stage) =>
                  st \in Stages(main.log)
    /\ main.exit_code \in {0 - 1, 0, 1}
    /\ main.step = "exited" => main.exit_code \in {0, 1}
    /\ main.exit_code = 0 =>
          /\ \A k \in 1..Len(main.log) : main.log[k].outcome = "returned"
          /\ {"fetch", "clean", "forecast", "analyze", "charts", "reports",
               "summary"} \subseteq Stages(main.log)
          /\ Len(main.log) = Len(MainCalls)
    /\ (main.step = "exited"
        /\ \E k \in 1..Len(main.log) : main.log[k].outcome # "returned")
          => main.exit_code = 1

\* C18 witness: the user interrupted a chart; the script exited with code 1
\* without writing a report or the summary.
C18_Witness ==
    /\ main.step = "exited"
    /\ main.exit_code = 1
    /\ main.log # <<>>
    /\ main.log[Len(main.log)].stage = "charts"
    /\ main.log[Len(main.log)].outcome = "KeyboardInterrupt"
    /\ "reports" \notin Stages(main.log)

\* A region's rows break the precondition: a value or a date is missing.
Malformed(table, geo) ==
    \E k \in 1..Len(table) :
        /\ table[k].geo = geo
        /\ (IsNaN(table[k].inflation_rate) \/ table[k].date = NaT)

\* C19: when the rows of a region break the precondition (a missing value
\* or a missing date), the call fails with an error: it does not return
\* rows for that region.
C19_MalformedFails ==
    pc = "returned" =>
        \A g \in GeoSet(df) : Malformed(df, g) => RowsOf(forecasts, g) = <<>>

C21_InputUnchanged ==
    [][pc = "loop" => df' = df]_vars

\* C21 witness: the call returned on a table that is not in date order,
\* after a fallback fit, and the table has the columns it was passed with.
C21_Witness ==
    /\ pc = "returned"
    /\ \E i, j \in 1..Len(df) : i < j /\ DateLess(df[j].date, df[i].date)
    /\ \E k \in 1..Len(forecasts) : forecasts[k].method = LinearTrend
    /\ \A k \in 1..Len(df) :
          DOMAIN df[k] = {"date", "geo", "country", "inflation_rate"}

\* The rows of a region that have fewer than k rows of the region dated
\* after them, in ascending date order.
LatestRows(table, geo, k) ==
    LET all == RowSet(table, geo)
        late == {r \in all :
                    Cardinality({q \in all : DateLess(r.date, q.date)}) < k}
    IN  SortValues(SelectSeq(table, LAMBDA r : r \in late))

\* C22: rows with the linear-trend label come from the least-squares line
\* through the Min(12, n) most recent observations of the region, each at
\* its month offset (year difference * 12 + month difference) from the
\* earliest date of that window: the first offset is 0, a missing month
\* leaves a gap, the point estimates are the line at 12, 13, ... and
\* std_error is the deviation of the residuals at those offsets.
C22_FallbackWindowOffsets ==
    \A k \in 1..Len(trace) :
        LET g      == trace[k].geo
            rows   == RowsOf(forecasts, g)
            recent == LatestRows(df, g, 12)
            X      == [j \in 1..Len(recent) |->
                          OffsetFrom(recent[1].date, recent[j].date)]
            y      == Values(recent)
            line   == FitLine(X, y)
        IN  (rows # <<>> /\ rows[1].method = LinearTrend) =>
                /\ Len(recent) = Min(12, Observations(df, g))
                /\ trace[k].fitted_on = Len(recent)
                /\ X[1] = 0
                /\ \A i \in 1..Len(rows) :
                      /\ rows[i].inflation_rate = Predict(line, 12 + (i - 1))
                      /\ rows[i].std_error
                            = Std([j \in 1..Len(X) |->
                                      y[j] - Predict(line, X[j])])

\* C22 witness: a returned fallback forecast of a region of 13 observations
\* with a missing month inside its last 12, so that the last offset is 12.
C22_Witness ==
    /\ pc = "returned"
    /\ \E g \in GeoSet(df) :
          LET recent == LatestRows(df, g, 12)
          IN  /\ Observations(df, g) = 13
              /\ Len(recent) = 12
              /\ OffsetFrom(recent[1].date, recent[12].date) = 12
              /\ RowsOf(forecasts, g) # <<>>
              /\ RowsOf(forecasts, g)[1].method = LinearTrend
              /\ RowsOf(forecasts, g)[1].std_error > 0

\* The sample table: AT, DE and EA20 with the monthly columns 2023-01 ..
\* 2025-10.
IsSample(t) ==
    /\ Len(t.columns) = 34
    /\ t.columns[1] = <<"2", "0", "2", "3", "-", "0", "1">>
    /\ t.columns[34] = <<"2", "0", "2", "5", "-", "1", "0">>
    /\ \A k \in 1..34 : ParsePeriod(t.columns[k]) # NaT
    /\ \A k \in 1..33 :
          MonthOrdinal(ParsePeriod(t.columns[k + 1]))
             = MonthOrdinal(ParsePeriod(t.columns[k])) + 1
    /\ [k \in 1..Len(t.rows) |-> t.rows[k].geo] = <<"AT", "DE", "EA20">>

\* The log entries of fetch_inflation_data.
Fetches == {main.log[k] : k \in 1..Len(main.log)}

\* C23 as stated: fetch_inflation_data never raises; whenever the retrieval
\* or the filtering raises, it returns the sample table.
C23_NeverRaises ==
    \A f \in Fetches :
        /\ f.outcome = "returned"
        /\ (f.event # "returns" \/ FilterRaises(f.source)) => IsSample(f.result)

\* C23 as amended: the script version lets no Exception out: when the
\* retrieval or the filtering raises an Exception it returns the sample
\* table, and only a KeyboardInterrupt leaves it; the package version
\* returns the sample table when the library is missing or the retrieval
\* raises an Exception, a KeyboardInterrupt leaves it, and so does an
\* Exception of the filtering.
C23_ExceptionsGiveSample ==
    \A f \in Fetches :
        /\ f.version = "script" =>
              /\ f.outcome \in {"returned", "KeyboardInterrupt"}
              /\ f.outcome = "KeyboardInterrupt" <=> f.event = "KeyboardInterrupt"
              /\ (f.event = "Exception"
                  \/ (f.event = "returns" /\ FilterRaises(f.source)))
                    => (f.outcome = "returned" /\ IsSample(f.result))
        /\ f.version = "package" =>
              /\ (~f.available \/ f.event = "Exception")
                    => (f.outcome = "returned" /\ IsSample(f.result))
              /\ f.outcome = "KeyboardInterrupt" <=> f.event = "KeyboardInterrupt"
              /\ f.outcome = "Exception"
                    <=> (f.event = "returns" /\ FilterRaises(f.source))

\* C23 witness: the script version returned the sample table after the
\* filtering raised on a table without a coicop column.
C23_Witness ==
    \E f \in Fetches :
        /\ f.version = "script"
        /\ f.event = "returns"
        /\ FilterRaises(f.source)
        /\ f.outcome = "returned"
        /\ IsSample(f.result)

\* The region codes of the rows of a raw table.
Codes(rows) == {rows[k].geo : k \in 1..Len(rows)}

\* C24: a table fetch_inflation_data returns after a successful retrieval
\* and filtering never holds rows of both EA19 and EA20: when the filtered
\* rows hold both codes, the result is the filtered rows without those of
\* EA19 (every EA20 row kept); otherwise the result is the filtered rows.
C24_OneEuroArea ==
    \A f \in Fetches :
        (f.outcome = "returned" /\ f.event = "returns"
         /\ ~FilterRaises(f.source)) =>
            /\ ~({"EA19", "EA20"} \subseteq Codes(f.result.rows))
            /\ {"EA19", "EA20"} \subseteq Codes(f.filtered) =>
                  f.result.rows = SelectSeq(f.filtered, LAMBDA r : r.geo # "EA19")
            /\ ~({"EA19", "EA20"} \subseteq Codes(f.filtered)) =>
                  f.result.rows = f.filtered

\* C24 witness: both codes passed the filter and the result holds EA20 only.
C24_Witness ==
    \E f \in Fetches :
        /\ f.outcome = "returned"
        /\ {"EA19", "EA20"} \subseteq Codes(f.filtered)
        /\ "EA20" \in Codes(f.result.rows)
        /\ "EA19" \notin Codes(f.result.rows)

\* The calls of the script recorded under a name.
Calls(name) ==
    {main.log[k] : k \in {j \in 1..Len(main.log) : main.log[j].name = name}}

\* The rates of a region's observations dated 2020-01-01 or later.
RecentRates(geo) ==
    Values(SelectSeq(df, LAMBDA r : r.geo = geo
                                    /\ DateKey(r.date) >= DateKey(Date(2020, 1, 1))))

\* C25: calculate_statistics uses only the observations dated 2020-01-01 or
\* later: a region has an entry iff it has such an observation; its mean,
\* median, min, max and std are those of exactly these observations; latest
\* and latest_date are the rate and date of an observation of the region
\* with the region's maximum date.
C25_StatisticsSince2020 ==
    \A c \in Calls("calculate_statistics") :
        \A geo \in GeoSet(df) :
            LET vals == RecentRates(geo)
                n    == Len(vals)
                s1   == SumSeq(vals)
                s2   == SumSeq([k \in 1..n |-> vals[k] * vals[k]])
                e    == c.result[CountryName(geo)]
                below(x) == Cardinality({k \in 1..n : vals[k] <= x})
                above(x) == Cardinality({k \in 1..n : vals[k] >= x})
            IN  /\ (CountryName(geo) \in DOMAIN c.result) <=> (n > 0)
                /\ n > 0 =>
                      /\ \A k \in 1..n : e.min <= vals[k] /\ vals[k] <= e.max
                      /\ \E k \in 1..n : vals[k] = e.min
                      /\ \E k \in 1..n : vals[k] = e.max
                      /\ 2 * (e.mean * n - s1) <= n
                      /\ 2 * (s1 - e.mean * n) <= n
                      /\ 2 * below(e.median) >= n
                      /\ 2 * above(e.median) >= n
                      /\ IF n = 1 THEN IsNaN(e.std)
                         ELSE /\ e.std * e.std * n * (n - 1) <= n * s2 - s1 * s1
                              /\ (e.std + 1) * (e.std + 1) * n * (n - 1)
                                     > n * s2 - s1 * s1 - n * (n - 1)
                      /\ \E k \in 1..Len(df) :
                            /\ df[k].geo = geo
                            /\ df[k].date = e.latest_date
                            /\ df[k].inflation_rate = e.latest
                            /\ \A j \in 1..Len(df) :
                                  df[j].geo = geo =>
                                      DateKey(df[j].date) <= DateKey(df[k].date)

\* Statistics were computed for a table in which one region has observations
\* before and after 2020-01-01 and another has none after it.
C25_Witness ==
    /\ Calls("calculate_statistics") # {}
    /\ \E g1, g2 \in GeoSet(df) :
          /\ Len(RecentRates(g1)) > 0
          /\ Len(RecentRates(g1)) < Len(FilterGeo(df, g1))
          /\ Len(RecentRates(g2)) = 0

\* The rate a table holds for a region name and a date, missing if none.
RateOf(name, date) ==
    IF \E k \in 1..Len(df) : df[k].country = name /\ df[k].date = date
    THEN df[CHOOSE k \in 1..Len(df) :
                df[k].country = name /\ df[k].date = date].inflation_rate
    ELSE NaN

\* What C26 says of a comparison table: one row per distinct date of the
\* input; with both columns present the difference is the Austrian minus the
\* Eurozone rate of the row's date and the flag is true exactly when it is
\* positive; otherwise neither column exists.
ComparisonAsStated(rows) ==
    LET dates == {df[k].date : k \in 1..Len(df)}
        both  == \E i, j \in 1..Len(df) :
                     df[i].geo = "AT" /\ df[j].geo \in {"EA19", "EA20"}
    IN  /\ Len(rows) = Cardinality(dates)
        /\ {rows[k].date : k \in 1..Len(rows)} = dates
        /\ \A k \in 1..Len(rows) :
              LET at == RateOf("Oesterreich", rows[k].date)
                  ea == RateOf("Eurozone", rows[k].date)
              IN  IF both
                  THEN /\ {"difference", "higher"} \subseteq DOMAIN rows[k]
                       /\ IF IsNaN(at) \/ IsNaN(ea)
                          THEN IsNaN(rows[k].difference) /\ ~rows[k].higher
                          ELSE /\ rows[k].difference = at - ea
                               /\ rows[k].higher = (at > ea)
                  ELSE {"difference", "higher"} \cap DOMAIN rows[k] = {}

\* C26: compare_regions returns one row per distinct date, with the
\* difference and the flag as stated when Austria and the Eurozone are both
\* present and without the two columns otherwise.
C26_Comparison ==
    \A c \in Calls("compare_regions") :
        c.outcome = "returned" /\ ComparisonAsStated(c.result)

\* The table compare_regions does return is as C26 states.
C26_ComparisonWhenReturned ==
    \A c \in Calls("compare_regions") :
        c.outcome = "returned" => ComparisonAsStated(c.result)

\* A comparison was returned with a date where Austria is higher, a date
\* where one of the two rates is missing, and another with equal rates.
C26_ReturnedCases ==
    \E c \in Calls("compare_regions") :
        /\ c.outcome = "returned"
        /\ \E k \in 1..Len(c.result) :
              "higher" \in DOMAIN c.result[k] /\ c.result[k].higher
        /\ \E k \in 1..Len(c.result) :
              "higher" \in DOMAIN c.result[k] /\ IsNaN(c.result[k].difference)

\* The rows of a region in date order.
RegionSeries(geo) == SortValues(FilterGeo(df, geo))

\* C27: identify_trends reports for every region the maximum and the minimum
\* of its rates, each with the earliest date of the region at which it is
\* attained.
C27_Extremes ==
    \A c \in Calls("identify_trends") :
        /\ DOMAIN c.result = {CountryName(geo) : geo \in GeoSet(df)}
        /\ \A geo \in GeoSet(df) :
              LET rows == RegionSeries(geo)
                  e    == c.result[CountryName(geo)]
              IN  /\ \A k \in 1..Len(rows) :
                        /\ rows[k].inflation_rate <= e.highest_rate
                        /\ rows[k].inflation_rate >= e.lowest_rate
                  /\ \E k \in 1..Len(rows) :
                        /\ rows[k].inflation_rate = e.highest_rate
                        /\ rows[k].date = e.highest_date
                  /\ \E k \in 1..Len(rows) :
                        /\ rows[k].inflation_rate = e.lowest_rate
                        /\ rows[k].date = e.lowest_date
                  /\ \A k \in 1..Len(rows) :
                        /\ rows[k].inflation_rate = e.highest_rate
                              => DateKey(e.highest_date) <= DateKey(rows[k].date)
                        /\ rows[k].inflation_rate = e.lowest_rate
                              => DateKey(e.lowest_date) <= DateKey(rows[k].date)

\* Trends were identified for a region whose maximum is attained in several
\* months.
C27_Witness ==
    /\ Calls("identify_trends") # {}
    /\ \E geo \in GeoSet(df) :
          \E i, j \in 1..Len(RegionSeries(geo)) :
              /\ RegionSeries(geo)[i].date # RegionSeries(geo)[j].date
              /\ RegionSeries(geo)[i].inflation_rate
                     = RegionSeries(geo)[j].inflation_rate
              /\ \A k \in 1..Len(RegionSeries(geo)) :
                    RegionSeries(geo)[k].inflation_rate
                       <= RegionSeries(geo)[i].inflation_rate

\* The date, point estimate and bounds of forecast rows.
Estimates(rows) ==
    [k \in 1..Len(rows) |->
        [date |-> rows[k].date, inflation_rate |-> rows[k].inflation_rate,
         lower_bound |-> rows[k].lower_bound,
         upper_bound |-> rows[k].upper_bound]]

\* C28: for the same table and method and horizons h1 < h2, the rows
\* returned for h1 are, region by region, the first h1 rows returned for h2
\* (dates, point estimates and bounds).
C28_PrefixConsistent ==
    (earlier # <<>> /\ earlier[1].altered = "horizon" /\ pc = "returned") =>
        \A geo \in GeoSet(df) :
            Estimates(RowsOf(earlier[1].forecasts, geo))
                = SubSeq(Estimates(RowsOf(forecasts, geo)), 1,
                         earlier[1].months_ahead)

\* C28 witness: both calls have returned, the second with more rows, for a
\* region fitted by the primary method and one fitted by the fallback.
C28_Witness ==
    /\ earlier # <<>>
    /\ earlier[1].altered = "horizon"
    /\ pc = "returned"
    /\ Len(forecasts) > Len(earlier[1].forecasts)
    /\ \E i, j \in 1..Len(earlier[1].forecasts) :
          /\ earlier[1].forecasts[i].method = HoltWinters
          /\ earlier[1].forecasts[i].inflation_rate
                 # earlier[1].forecasts[1].inflation_rate
          /\ earlier[1].forecasts[j].method = LinearTrend

\* The fallback's fit or the date generation fails for a region: a value or
\* a date is missing among its latest 12 rows, or it has no date at all.
FallbackFails(geo) ==
    LET region_data == SortValues(FilterGeo(df, geo))
        recent == TailRows(region_data, 12)
    IN  \/ \E k \in 1..Len(recent) :
              IsNaN(recent[k].inflation_rate) \/ recent[k].date = NaT
        \/ \A k \in 1..Len(region_data) : region_data[k].date = NaT

\* C29: forecast_inflation returns rows for every region of the table or
\* raises: a failure of the fallback or of the date generation for a region
\* ends the call at that region, and a call that has raised takes no further
\* step, so the rows gathered before are not returned.
C29_AllOrNothing ==
    /\ [](pc = "returned" =>
            \A geo \in GeoSet(df) :
                Len(RowsOf(forecasts, geo)) = months_ahead)
    /\ [](\A k \in 1..Len(trace) :
             ((~trace[k].primary_attempted \/ trace[k].primary_raised)
              /\ FallbackFails(trace[k].geo))
                 => (pc = "raised" /\ k = Len(trace)))
    /\ [][pc # "raised"]_vars

\* C29 witness: the call has raised at a region after gathering the rows of
\* another.
C29_Witness ==
    /\ pc = "raised"
    /\ forecasts # <<>>
    /\ FallbackFails(trace[Len(trace)].geo)

\* The call has raised at a region with another still to be processed.
C29_RaisedBeforeLast ==
    /\ pc = "raised"
    /\ todo # <<>>

\* C30: the forecast rows of one region carry the same method label,
\* std_error and training_months; every row has is_forecast = TRUE; and with
\* method = 'linear' the primary method is attempted for no region and every
\* row carries the linear-trend label, whatever the number of observations.
C30_UniformLabels ==
    /\ \A i, j \in 1..Len(forecasts) :
          forecasts[i].geo = forecasts[j].geo =>
              /\ forecasts[i].method = forecasts[j].method
              /\ forecasts[i].std_error = forecasts[j].std_error
              /\ forecasts[i].training_months = forecasts[j].training_months
    /\ \A i \in 1..Len(forecasts) : forecasts[i].is_forecast = TRUE
    /\ method = "linear" =>
          /\ \A k \in 1..Len(trace) : ~trace[k].primary_attempted
          /\ \A i \in 1..Len(forecasts) : forecasts[i].method = LinearTrend

\* C30 witness: a call with method = 'linear' has returned several rows for
\* a region of at least 24 observations and for a region of fewer than 12,
\* with different std_error.
C30_Witness ==
    /\ pc = "returned"
    /\ method = "linear"
    /\ months_ahead > 1
    /\ \E i, j \in 1..Len(forecasts) :
          /\ Observations(df, forecasts[i].geo) >= 24
          /\ Observations(df, forecasts[j].geo) < 12
          /\ forecasts[i].std_error # forecasts[j].std_error
====
